---- MODULE Spec2Model ----
(***************************************************************************)
(* Model of the waveform cache (HDAWGWaveManager) and of the program       *)
(* registry and translator (HDAWGProgramManager) of                        *)
(* qupulse/hardware/awgs/zihdawg.py.                                       *)
(*                                                                         *)
(* Text is modelled line by line: a line is a record with its number of    *)
(* leading blanks (ind) and its content (kind, num, name, ops).  File and  *)
(* reference names are the strings the code builds.  Sample values are     *)
(* exact rationals <<numerator, denominator>> in lowest terms.             *)
(***************************************************************************)
EXTENDS Integers, Sequences, FiniteSets, TLC

VARIABLES
    known_programs,   \* HDAWGProgramManager._known_programs, in dictionary order
    ambient,          \* the configuration fields HDAWGProgramManager.register overwrites
    wave_by_data,     \* HDAWGWaveManager._wave_by_data, in dictionary order
    marker_by_data,   \* HDAWGWaveManager._marker_by_data, in dictionary order
    files,            \* the files of the wave directory: name -> saved table
    events,           \* history: the last two hash look-ups of register
    given,            \* history: every content looked up so far with the name returned
    peer,             \* a second wave manager on the same directory: [prefix, w, m]
    leftover,         \* history: the items register calls that raised had stored before
    group,            \* the channel group: armed program, registers, text sent to the device
    poll,             \* the polling call and the compiler and upload state it reads
    inserted,         \* history: names in the order their keys entered known_programs
    assigned,         \* history: every index handed out so far
    fresh_run,        \* history: only new names were registered since the registry was empty
    last              \* history: the last call, its arguments and its outcome

vars == <<known_programs, ambient, wave_by_data, marker_by_data, files,
          events, given, peer, leftover, group, poll, inserted, assigned, fresh_run, last>>

----------------------------------------------------------------------------
(* Bounds and input sets *)

\* Registrations are explored while the index to hand out is at most MaxIndex.
MaxIndex == 3

\* Direct calls of the wave manager are explored while they leave at most
\* MaxCached items in its two dictionaries.
MaxCached == 2

None == "None"

ProgNames == {"p", "q", "r"}

WaveformIDs == {"W1", "W2"}

\* The value PROG_SEL holds while no program is selected.
PROG_IDLE == 0

\* Owner prefix of the cache (the channel group's identifier).
AwgPrefix == "dev_AB"

FileType == "csv"

----------------------------------------------------------------------------
(* Arithmetic helpers *)

Abs(x) == IF x < 0 THEN -x ELSE x

RECURSIVE GCD(_, _)
GCD(a, b) == IF b = 0 THEN a ELSE GCD(b, a % b)

\* The quotient n/d (d > 0) in lowest terms.
Frac(n, d) ==
    LET g == GCD(Abs(n), d)
    IN  IF n = 0 THEN <<0, 1>> ELSE <<n \div g, d \div g>>

Zero == <<0, 1>>

----------------------------------------------------------------------------
(* The external sampler and the voltage transformations *)

\* waveform.get_sampled(channel, sample_times): the physical samples.
GetSampled(w, ch) ==
    CASE w = "W1" /\ ch = "A" -> <<0, 1>>
      [] w = "W1" /\ ch = "B" -> <<1, 2>>
      [] w = "W1" /\ ch = "M" -> <<0, 2>>
      [] w = "W2" /\ ch = "A" -> <<0, 1>>
      [] w = "W2" /\ ch = "B" -> <<2, 2>>
      [] w = "W2" /\ ch = "M" -> <<1, 1>>

\* get_sample_times: the number of samples of a waveform.
NSamplesOf(w) == Len(GetSampled(w, "A"))

ApplyTransformation(t, v) == IF t = "dbl" THEN 2 * v ELSE v

----------------------------------------------------------------------------
(* HDAWGWaveManager *)

\* A dictionary is the sequence of its items [hash, name] in insertion order.
DictHas(d, h) == \E i \in 1..Len(d) : d[i].hash = h

DictGet(d, h) ==
    IF DictHas(d, h) THEN d[CHOOSE i \in 1..Len(d) : d[i].hash = h].name ELSE None

DictNames(d) == {d[i].name : i \in 1..Len(d)}

\* A sampled table is [dtype, rows]: one row per sample, one column per slot passed.
\* The number that stands for the bytes of one stored value of the given dtype
\* (a float n/1 or n/2, or an unsigned byte).
ValueCode(dtype, v) == IF dtype = "uint8" THEN v ELSE 2 * (v[1] + 5) - (v[2] - 1)

RECURSIVE Flatten(_)
Flatten(rows) == IF rows = <<>> THEN <<>> ELSE Head(rows) \o Flatten(Tail(rows))

\* bytes(data): the stored values in row-major order; the shape is not part of them.
Bytes(data) ==
    LET flat == Flatten(data.rows)
    IN  [i \in 1..Len(flat) |-> ValueCode(data.dtype, flat[i])]

RECURSIVE Digest(_)
Digest(bytes) ==
    IF bytes = <<>> THEN 0
    ELSE 24 * Digest(SubSeq(bytes, 1, Len(bytes) - 1)) + bytes[Len(bytes)] + 1

\* calc_hash: Python's hash of the bytes, a signed integer whose value the source
\* does not determine.  It is represented by a digest that is deterministic, free
\* of collisions on the byte strings of one dtype, and takes both signs.
CalcHash(data) ==
    LET n == Digest(Bytes(data))
    IN  IF n % 2 = 0 THEN (n \div 2) + 1 ELSE -((n \div 2) + 1)

GenerateWaveName(prefix, data_hash) == prefix \o "_" \o ToString(Abs(data_hash))

GenerateMarkerName(prefix, data_hash) == prefix \o "_M_" \o ToString(Abs(data_hash))

\* full_file_path: the file of a reference name inside the wave directory.
FullFilePath(name) == name \o "." \o FileType

FileExists(f, name) == FullFilePath(name) \in DOMAIN f

FilePut(f, path, content) ==
    [p \in DOMAIN f \cup {path} |-> IF p = path THEN content ELSE f[p]]

FileDrop(f, paths) == [p \in DOMAIN f \ paths |-> f[p]]

\* to_file: fails when the file exists and overwrite is not set, else saves the table.
ToFile(f, name, wave_data, fmt, overwrite) ==
    IF FileExists(f, name) /\ ~overwrite
    THEN [ok |-> FALSE, files |-> f]
    ELSE [ok |-> TRUE,
          files |-> FilePut(f, FullFilePath(name), [fmt |-> fmt, rows |-> wave_data.rows])]

\* Variants of the condition with a defect: saving on every call, and saving only
\* when the file is missing.
MustWrite_Always(f, name, overwrite) == TRUE

MustWrite_IfMissing(f, name, overwrite) == ~FileExists(f, name)

\* The condition under which register saves the table.
MustWrite(f, name, overwrite) == overwrite \/ ~FileExists(f, name)

\* Variant of volt_to_amp with a defect: a sample on the edge of the range is
\* rejected.
VoltToAmp_EdgeRejected(volt, rng, offset) ==
    [ok  |-> \A k \in 1..Len(volt) : Abs(volt[k] - offset) < rng,
     amp |-> [k \in 1..Len(volt) |-> Frac(volt[k] - offset, rng)]]

\* volt_to_amp: out of range when some |volt - offset| > rng, else (volt - offset) / rng.
VoltToAmp(volt, rng, offset) ==
    [ok  |-> \A k \in 1..Len(volt) : Abs(volt[k] - offset) <= rng,
     amp |-> [k \in 1..Len(volt) |-> Frac(volt[k] - offset, rng)]]

\* Variant of the look-up with a defect: the name minted on a miss also counts the
\* items recorded at that moment.
Lookup_Counting(d, h, new_name) ==
    [hash |-> h, hit |-> DictHas(d, h), known_as |-> DictGet(d, h),
     minted |-> new_name \o "_" \o ToString(Len(d)),
     name |-> IF DictHas(d, h) THEN DictGet(d, h) ELSE new_name \o "_" \o ToString(Len(d)),
     dict |-> IF DictHas(d, h) THEN d
              ELSE Append(d, [hash |-> h, name |-> new_name \o "_" \o ToString(Len(d))])]

\* register, "Reuse sampled data, if available": the look-up of a hash h.  The name
\* is the recorded one on a hit and new_name, which is then recorded, on a miss.
Lookup(d, h, new_name) ==
    [hash |-> h, hit |-> DictHas(d, h), known_as |-> DictGet(d, h), minted |-> new_name,
     name |-> IF DictHas(d, h) THEN DictGet(d, h) ELSE new_name,
     dict |-> IF DictHas(d, h) THEN d ELSE Append(d, [hash |-> h, name |-> new_name])]

\* The table is saved under the name looked up when MustWrite.
Stored(f, lk, data, fmt, overwrite) ==
    LET writes == MustWrite(f, lk.name, overwrite)
        tf     == ToFile(f, lk.name, data, fmt, overwrite)
    IN  [ok    |-> ~writes \/ tf.ok,
         dict  |-> lk.dict,
         files |-> IF writes THEN tf.files ELSE f,
         name  |-> lk.name,
         event |-> [ns |-> fmt, data |-> data, hash |-> lk.hash, name |-> lk.name,
                    hit |-> lk.hit, known_as |-> lk.known_as, minted |-> lk.minted,
                    recorded |-> DictGet(lk.dict, lk.hash),
                    existed |-> FileExists(f, lk.name), wrote |-> writes /\ tf.ok,
                    raised |-> writes /\ ~tf.ok, overwrite |-> overwrite]]

StoreData(d, f, data, new_name, fmt, overwrite) ==
    Stored(f, Lookup(d, CalcHash(data), new_name), data, fmt, overwrite)

\* History: keep the last two look-ups.
Remember(evs, e) == IF evs = <<>> THEN <<e>> ELSE <<evs[Len(evs)], e>>

\* The samples of a channel after a transformation.
Voltage(waveform, chan, transformation) ==
    [k \in 1..NSamplesOf(waveform) |->
        ApplyTransformation(transformation, GetSampled(waveform, chan)[k])]

\* register: for every slot passed, the conversion of its samples with
\* output_range[idx] and output_offset[idx]; a slot without a channel stays zero.
Conversions(waveform, channels, voltage_transformation, output_range, output_offset) ==
    [idx \in 1..Len(channels) |->
        IF channels[idx] # None
        THEN VoltToAmp(Voltage(waveform, channels[idx], voltage_transformation[idx]),
                       output_range[idx], output_offset[idx])
        ELSE [ok |-> TRUE, amp |-> [k \in 1..NSamplesOf(waveform) |-> Zero]]]

\* The table amplitude: one row per sample, one column per slot passed.
AmplitudeTable(n_samples, convs) ==
    [dtype |-> "float",
     rows  |-> [k \in 1..n_samples |-> [idx \in 1..Len(convs) |-> convs[idx].amp[k]]]]

\* The table marker_output: 1 where the sampled marker is not 0.
MarkerTable(waveform, markers) ==
    [dtype |-> "uint8",
     rows  |-> [k \in 1..NSamplesOf(waveform) |->
                 [idx \in 1..Len(markers) |->
                     IF markers[idx] # None /\ GetSampled(waveform, markers[idx])[k] # 0
                     THEN 1 ELSE 0]]]

\* The outcome of a register call: whether it returned (ok) or raised and with
\* which error, the cache after it, the two names, and the amplitude table behind
\* the wave name.
Returned(cs, wave_name, marker_name, amplitude) ==
    [ok |-> TRUE, error |-> None, cs |-> cs, wave_name |-> wave_name,
     marker_name |-> marker_name, amplitude |-> amplitude]

Raised(cs, error) ==
    [ok |-> FALSE, error |-> error, cs |-> cs, wave_name |-> None, marker_name |-> None,
     amplitude |-> None]

\* History: the content of a look-up and the name it returned.
Given(e) == [ns |-> e.ns, data |-> e.data, name |-> e.name]

\* The cache after a look-up in the wave dictionary or in the marker dictionary.
WaveStored(cs, ws) ==
    [cs EXCEPT !.w = ws.dict, !.f = ws.files, !.ev = Remember(cs.ev, ws.event),
               !.gv = @ \cup {Given(ws.event)}]

MarkerStored(cs, ms) ==
    [cs EXCEPT !.m = ms.dict, !.f = ms.files, !.ev = Remember(cs.ev, ms.event),
               !.gv = @ \cup {Given(ms.event)}]

WaveDone(cs, amplitude, ws) ==
    IF ws.ok THEN Returned(WaveStored(cs, ws), ws.name, None, amplitude)
    ELSE Raised(WaveStored(cs, ws), "HDAWGIOError")

\* register, the wave side.
WaveSide(cs, amplitude, overwrite) ==
    WaveDone(cs, amplitude,
             StoreData(cs.w, cs.f, amplitude,
                       GenerateWaveName(cs.prefix, CalcHash(amplitude)), "%f", overwrite))

MarkerDone(r, ms) ==
    IF ms.ok THEN Returned(MarkerStored(r.cs, ms), r.wave_name, ms.name, r.amplitude)
    ELSE Raised(MarkerStored(r.cs, ms), "HDAWGIOError")

\* register, the marker side; r is the outcome of the wave side.
MarkerSide(r, marker_output, overwrite) ==
    MarkerDone(r, StoreData(r.cs.m, r.cs.f, marker_output,
                            GenerateMarkerName(r.cs.prefix, CalcHash(marker_output)),
                            "%d", overwrite))

RegisterMarker(r, has_marker, marker_output, overwrite) ==
    IF r.ok /\ has_marker THEN MarkerSide(r, marker_output, overwrite) ELSE r

\* register on the converted samples: volt_to_amp raises before anything is stored.
RegisterTables(cs, has_wave, has_marker, convs, marker_output, overwrite) ==
    IF has_wave /\ \E idx \in 1..Len(convs) : ~convs[idx].ok
    THEN Raised(cs, "HDAWGValueError")
    ELSE RegisterMarker(IF has_wave
                        THEN WaveSide(cs, AmplitudeTable(Len(marker_output.rows), convs),
                                      overwrite)
                        ELSE Returned(cs, None, None, None),
                        has_marker, marker_output, overwrite)

\* register: cs is the cache [w, m, f, ev, gv, prefix].
Register(cs, waveform, channels, markers, voltage_transformation, output_range, output_offset, overwrite) ==
    RegisterTables(cs,
                   \E idx \in 1..Len(channels) : channels[idx] # None,
                   \E idx \in 1..Len(markers) : markers[idx] # None,
                   Conversions(waveform, channels, voltage_transformation,
                               output_range, output_offset),
                   MarkerTable(waveform, markers), overwrite)

\* register_single_channels: one register call per slot that has a channel or a
\* marker, in slot order; the first call that raises ends the loop.  An entry of
\* registered_names also keeps the amplitude table behind its wave name.
RECURSIVE RegisterSlots(_, _, _, _, _, _, _, _, _, _)
RECURSIVE SlotDone(_, _, _, _, _, _, _, _, _, _)
RegisterSlots(idx, cs, registered_names, waveform, channels, markers, voltage_transformations, output_range, output_offset, overwrite) ==
    IF idx > Len(channels)
    THEN [ok |-> TRUE, cs |-> cs, registered_names |-> registered_names]
    ELSE IF channels[idx] = None /\ markers[idx] = None
    THEN RegisterSlots(idx + 1, cs, registered_names, waveform, channels, markers,
                       voltage_transformations, output_range, output_offset, overwrite)
    ELSE SlotDone(idx,
                  Register(cs, waveform, <<channels[idx]>>, <<markers[idx]>>,
                           <<voltage_transformations[idx]>>,
                           output_range, output_offset, overwrite),
                  registered_names, waveform, channels, markers,
                  voltage_transformations, output_range, output_offset, overwrite)

\* Variant of the rest of the loop with a defect: the slot index is 0-based.
SlotDone_ZeroBased(idx, r, registered_names, waveform, channels, markers, voltage_transformations, output_range, output_offset, overwrite) ==
    IF ~r.ok
    THEN [ok |-> FALSE, cs |-> r.cs, registered_names |-> registered_names]
    ELSE RegisterSlots(idx + 1, r.cs,
                       Append(registered_names,
                              [wave_name |-> r.wave_name, marker_name |-> r.marker_name,
                               zi_channel_idx |-> idx - 1,
                               qupulse_channel_name |-> channels[idx],
                               amplitude |-> r.amplitude]),
                       waveform, channels, markers, voltage_transformations,
                       output_range, output_offset, overwrite)

\* The rest of the loop after the register call of slot idx had the outcome r.
SlotDone(idx, r, registered_names, waveform, channels, markers, voltage_transformations, output_range, output_offset, overwrite) ==
    IF ~r.ok
    THEN [ok |-> FALSE, cs |-> r.cs, registered_names |-> registered_names]
    ELSE RegisterSlots(idx + 1, r.cs,
                       Append(registered_names,
                              [wave_name |-> r.wave_name, marker_name |-> r.marker_name,
                               zi_channel_idx |-> idx,
                               qupulse_channel_name |-> channels[idx],
                               amplitude |-> r.amplitude]),
                       waveform, channels, markers, voltage_transformations,
                       output_range, output_offset, overwrite)

RegisterSingleChannels(cs, waveform, channels, markers, voltage_transformations, output_range, output_offset, overwrite) ==
    RegisterSlots(1, cs, <<>>, waveform, channels, markers, voltage_transformations,
                  output_range, output_offset, overwrite)

\* The glob of clear: prefix + '_*.' + file type.
GlobMatch(path, prefix) ==
    LET head == prefix \o "_"
        tail == "." \o FileType
    IN  /\ Len(path) >= Len(head) + Len(tail)
        /\ SubSeq(path, 1, Len(head)) = head
        /\ SubSeq(path, Len(path) - Len(tail) + 1, Len(path)) = tail

\* Variant of clear with a defect: the dictionaries are emptied, the files stay.
Clear_DictsOnly(cs) ==
    [cs EXCEPT !.w = <<>>, !.m = <<>>]

\* clear: both dictionaries emptied, every file the glob matches unlinked.
Clear(cs) ==
    [cs EXCEPT !.w = <<>>, !.m = <<>>,
               !.f = FileDrop(cs.f, {p \in DOMAIN cs.f : GlobMatch(p, cs.prefix)})]

DictFirst(d, name) == CHOOSE i \in 1..Len(d) :
                          d[i].name = name /\ \A j \in 1..(i - 1) : d[j].name # name

DictDel(d, i) == SubSeq(d, 1, i - 1) \o SubSeq(d, i + 1, Len(d))

\* One loop of remove: the first item whose name matches is unlinked and deleted;
\* unlink raises when the file is missing.
RemoveFrom(d, f, name) ==
    IF name \notin DictNames(d) THEN [ok |-> TRUE, dict |-> d, files |-> f]
    ELSE IF ~FileExists(f, name) THEN [ok |-> FALSE, dict |-> d, files |-> f]
    ELSE [ok |-> TRUE, dict |-> DictDel(d, DictFirst(d, name)),
          files |-> FileDrop(f, {FullFilePath(name)})]

\* remove: the wave loop, then the marker loop.
Remove(cs, name) ==
    LET rw == RemoveFrom(cs.w, cs.f, name)
        rm == RemoveFrom(cs.m, rw.files, name)
    IN  IF ~rw.ok THEN [ok |-> FALSE, cs |-> cs]
        ELSE [ok |-> rm.ok, cs |-> [cs EXCEPT !.w = rw.dict, !.m = rm.dict, !.f = rm.files]]

----------------------------------------------------------------------------
(* Program trees (Loop) *)

Leaf(w, n) == [repetition_count |-> n, waveform |-> w, children |-> <<>>]

Node(n, ch) == [repetition_count |-> n, waveform |-> None, children |-> ch]

IsLeaf(prog) == Len(prog.children) = 0

\* A repeated single leaf, and a sequence of two leaves whose samples on "A" agree.
Programs ==
    { Node(2, <<Leaf("W1", 1)>>),
      Node(1, <<Leaf("W1", 1), Leaf("W2", 3)>>) }

\* Trees handed to the translator alone: leaves, nodes over one or two leaves,
\* nodes over a node and a leaf, and a chain of three nodes; every repetition count
\* is 1 at some places and above 1 at others, the root included.
TreeLeaves == {Leaf(w, n) : w \in WaveformIDs, n \in {1, 2}}

TreeFlat ==
    {Node(n, <<a>>) : n \in {1, 3}, a \in TreeLeaves}
        \cup {Node(n, <<a, b>>) : n \in {1, 3}, a \in {Leaf("W1", 1), Leaf("W2", 2)},
                                  b \in {Leaf("W1", 2), Leaf("W2", 1)}}

TreeNested ==
    {Node(n, <<Node(m, <<a, Leaf("W1", 1)>>), Leaf("W2", k)>>) :
         n \in {1, 2}, m \in {1, 2}, k \in {1, 2}, a \in {Leaf("W1", 2), Leaf("W2", 1)}}
        \cup {Node(n, <<Node(1, <<Node(m, <<Leaf("W2", k)>>)>>)>>) :
                  n \in {1, 2}, m \in {1, 3}, k \in {1, 2}}

Trees == TreeLeaves \cup TreeFlat \cup TreeNested

----------------------------------------------------------------------------
(* HDAWGProgramManager: translation *)

Line(ind, kind, num, name, ops) ==
    [ind |-> ind, kind |-> kind, num |-> num, name |-> name, ops |-> ops]

Text(kind) == Line(0, kind, 0, "", <<>>)

\* A line that holds blanks only.
IsBlank(l) == l.kind = ""

\* Variant of the template with a defect: nothing is put in front of the lines.
Template_Flat(lines) == lines

\* '  {}'.format(line) applied to every line: two blanks in front of each.
Template(lines) == [i \in 1..Len(lines) |-> [lines[i] EXCEPT !.ind = @ + 2]]

\* textwrap.indent: the prefix goes in front of every line that is not blank.
Indent(lines, n) ==
    [i \in 1..Len(lines) |->
        IF IsBlank(lines[i]) THEN lines[i] ELSE [lines[i] EXCEPT !.ind = @ + n]]

\* The operand of one registered tuple: add(wave, marker), or the one name present.
RECURSIVE Operands(_)
\* Variant of the operands with a defect: a tuple with both names gives the wave
\* name alone.
Operands_NoAdd(registered_names) ==
    IF registered_names = <<>> THEN <<>>
    ELSE LET e == Head(registered_names)
             rest == Operands(Tail(registered_names))
         IN  IF e.marker_name # None /\ e.wave_name = None
             THEN <<[channel_idx |-> e.zi_channel_idx, form |-> "name",
                     wf |-> None, mk |-> e.marker_name]>> \o rest
             ELSE IF e.wave_name # None
             THEN <<[channel_idx |-> e.zi_channel_idx, form |-> "name",
                     wf |-> e.wave_name, mk |-> None]>> \o rest
             ELSE rest

Operands(registered_names) ==
    IF registered_names = <<>> THEN <<>>
    ELSE LET e == Head(registered_names)
             rest == Operands(Tail(registered_names))
         IN  IF e.marker_name # None /\ e.wave_name # None
             THEN <<[channel_idx |-> e.zi_channel_idx, form |-> "add",
                     wf |-> e.wave_name, mk |-> e.marker_name]>> \o rest
             ELSE IF e.marker_name # None /\ e.wave_name = None
             THEN <<[channel_idx |-> e.zi_channel_idx, form |-> "name",
                     wf |-> None, mk |-> e.marker_name]>> \o rest
             ELSE IF e.marker_name = None /\ e.wave_name # None
             THEN <<[channel_idx |-> e.zi_channel_idx, form |-> "name",
                     wf |-> e.wave_name, mk |-> None]>> \o rest
             ELSE rest

\* The playWave line over the operands www, '' when nothing is played.
PlayWave(www) == IF www = <<>> THEN Text("") ELSE Line(0, "playWave", 0, "", www)

\* waveform_to_seqc, after register_single_channels had the outcome r.
PlayRegistered(r) ==
    [ok |-> r.ok, cs |-> r.cs, line |-> PlayWave(Operands(r.registered_names))]

\* waveform_to_seqc: the leaf is registered with the ambient configuration.
WaveformToSeqc(waveform, amb, cs) ==
    PlayRegistered(RegisterSingleChannels(cs, waveform, amb.channels, amb.markers,
                                          amb.voltage_transformation, amb.output_range,
                                          amb.output_offset, amb.overwrite))

\* program_to_seqc of a leaf: the one line of its waveform.
LeafToSeqc(r) == [ok |-> r.ok, cs |-> r.cs, lines |-> <<r.line>>]

\* Variant of the wrapping with a defect: a repetition count of 1 is wrapped too.
Repeated_FromOne(repetition_count, body) ==
    IF repetition_count >= 1
    THEN [body EXCEPT !.lines = <<Line(0, "repeat", repetition_count, "", <<>>)>>
                                \o Template(body.lines) \o <<Text("}")>>]
    ELSE body

\* program_to_seqc: a repetition count above 1 wraps the body in repeat(n) { }.
Repeated(repetition_count, body) ==
    IF repetition_count > 1
    THEN [body EXCEPT !.lines = <<Line(0, "repeat", repetition_count, "", <<>>)>>
                                \o Template(body.lines) \o <<Text("}")>>]
    ELSE body

\* The lines of a child followed by those of the children after it.
Joined(t, rest) == [ok |-> rest.ok, cs |-> rest.cs, lines |-> t.lines \o rest.lines]

\* program_to_seqc: the lines of a tree; the cache is threaded through the leaves
\* in the order the generator visits them, and a raising leaf ends the walk.
RECURSIVE ProgramToSeqc(_, _, _)
RECURSIVE ChildrenToSeqc(_, _, _, _)
RECURSIVE ChildDone(_, _, _, _)
ProgramToSeqc(prog, amb, cs) ==
    Repeated(prog.repetition_count,
             IF IsLeaf(prog)
             THEN LeafToSeqc(WaveformToSeqc(prog.waveform, amb, cs))
             ELSE ChildrenToSeqc(prog.children, 1, amb, cs))

ChildrenToSeqc(children, i, amb, cs) ==
    IF i > Len(children) THEN [ok |-> TRUE, cs |-> cs, lines |-> <<>>]
    ELSE ChildDone(children, i, amb, ProgramToSeqc(children[i], amb, cs))

\* Variant of the walk with a defect: a child that raised empties the cache.
ChildDone_Discarding(children, i, amb, t) ==
    IF ~t.ok THEN [ok |-> FALSE, cs |-> Clear(t.cs), lines |-> <<>>]
    ELSE Joined(t, ChildrenToSeqc(children, i + 1, amb, t.cs))

\* The walk after child i had the outcome t.
ChildDone(children, i, amb, t) ==
    IF ~t.ok THEN [ok |-> FALSE, cs |-> t.cs, lines |-> <<>>]
    ELSE Joined(t, ChildrenToSeqc(children, i + 1, amb, t.cs))

----------------------------------------------------------------------------
(* HDAWGProgramManager: registry and assembly *)

\* _known_programs is the sequence of its items [name, program, index, seqc_rep].
Names(kp) == {kp[i].name : i \in 1..Len(kp)}

Position(kp, name) == CHOOSE i \in 1..Len(kp) : kp[i].name = name

\* Variant of the item assignment with a defect: a known key moves to the end.
SetItem_MoveToEnd(kp, entry) ==
    Append(SelectSeq(kp, LAMBDA e : e.name # entry.name), entry)

\* Variant of the item assignment with a defect: a known key keeps its old item.
SetItem_KeepOld(kp, entry) ==
    IF entry.name \in Names(kp) THEN kp ELSE Append(kp, entry)

\* OrderedDict item assignment: a known key keeps its place, a new key goes last.
SetItem(kp, entry) ==
    IF entry.name \in Names(kp)
    THEN [kp EXCEPT ![Position(kp, entry.name)] = entry]
    ELSE Append(kp, entry)

\* Variant of pop with a defect: the first item is removed, whatever the key.
Pop_First(kp, name) == Tail(kp)

\* Variant of pop with a defect: the items that remain are numbered anew from 1.
Pop_Renumbering(kp, name) ==
    [i \in 1..(Len(kp) - 1) |->
        [SelectSeq(kp, LAMBDA e : e.name # name)[i] EXCEPT !.index = i]]

\* OrderedDict.pop(name) of a known key.
Pop(kp, name) ==
    SubSeq(kp, 1, Position(kp, name) - 1) \o SubSeq(kp, Position(kp, name) + 1, Len(kp))

\* Variants of generate_program_index with a defect: counting the items, reading
\* the first item instead of the last, and starting at 0.
GenerateProgramIndex_Count(kp) == Len(kp) + 1

GenerateProgramIndex_First(kp) ==
    IF kp # <<>> THEN kp[1].index + 1 ELSE 1

GenerateProgramIndex_FromZero(kp) ==
    IF kp # <<>> THEN kp[Len(kp)].index + 1 ELSE 0

\* generate_program_index: the index of the last item plus one, 1 when empty.
GenerateProgramIndex(kp) ==
    IF kp # <<>> THEN kp[Len(kp)].index + 1 ELSE 1

NameToIndex(kp, name) == kp[Position(kp, name)].index

\* case_wrap_program
CaseWrapProgram(entry, indent) ==
    LET indented_seqc == Indent(entry.seqc_rep \o <<Line(0, "// end of", 0, entry.name, <<>>)>>, 4)
        case_str == <<Line(0, "case", entry.index, entry.name, <<>>)>> \o indented_seqc
    IN  Indent(case_str, indent)

\* Variant of assemble_case_block with a defect: the last program is left out.
RECURSIVE AssembleCaseBlock_SkipLast(_)
AssembleCaseBlock_SkipLast(kp) ==
    IF Len(kp) <= 1 THEN <<>>
    ELSE CaseWrapProgram(Head(kp), 8) \o AssembleCaseBlock_SkipLast(Tail(kp))

\* assemble_case_block: the wrapped programs in dictionary order, joined by newlines.
RECURSIVE AssembleCaseBlock(_)
AssembleCaseBlock(kp) ==
    IF kp = <<>> THEN <<>>
    ELSE CaseWrapProgram(Head(kp), 8) \o AssembleCaseBlock(Tail(kp))

\* sequencer_template after dedent.
SequencerTemplate ==
    << Text("//////////  qupulse sequence (_upload_time_) //////////"),
       Text(""),
       Text("const PROG_SEL = 0; // User register for switching current program."),
       Text(""),
       Text("// Start of analog waveform definitions."),
       Text("wave idle = zeros(16); // Default idle waveform."),
       Text("_analog_waveform_block_"),
       Text(""),
       Text("// Start of marker waveform definitions."),
       Text("_marker_waveform_block_"),
       Text(""),
       Text("// Arm program switch."),
       Text("var prog_sel = getUserReg(PROG_SEL);"),
       Text(""),
       Text("// Main loop."),
       Text("while(true){"),
       Line(4, "switch(prog_sel){", 0, "", <<>>),
       Text("_case_block_"),
       Line(8, "default:", 0, "", <<>>),
       Line(12, "playWave(1, idle);", 0, "", <<>>),
       Line(4, "}", 0, "", <<>>),
       Text("}") >>

\* str.replace of a placeholder that stands alone on its line: the lines of the
\* replacement take its place (one empty line when the replacement is '').
RECURSIVE Replace(_, _, _)
Replace(doc, placeholder, lines) ==
    IF doc = <<>> THEN <<>>
    ELSE (IF Head(doc).kind = placeholder
          THEN (IF lines = <<>> THEN <<Text("")>> ELSE lines)
          ELSE <<Head(doc)>>) \o Replace(Tail(doc), placeholder, lines)

\* assemble_sequencer_program
AssembleSequencerProgram(kp) ==
    LET s1 == Replace(SequencerTemplate, "_analog_waveform_block_", <<>>)
        s2 == Replace(s1, "_marker_waveform_block_", <<>>)
    IN  Replace(s2, "_case_block_", AssembleCaseBlock(kp))

----------------------------------------------------------------------------
(* Inputs of the calls *)

\* Every call passes the one sample rate at which GetSampled gives its tables;
\* TimeType() is the rate 0 the program manager is constructed with.
QSampleRate == 1

TimeTypeZero == 0

Configuration(channels, markers, voltage_transformation, output_range, output_offset, overwrite) ==
    [channels |-> channels, markers |-> markers,
     voltage_transformation |-> voltage_transformation,
     sample_rate |-> QSampleRate,
     output_range |-> output_range, output_offset |-> output_offset,
     overwrite |-> overwrite]

\* Configurations passed to the wave manager directly: one wave channel, without
\* and with overwrite; two slots whose ranges differ, the wider on slot 2 and on
\* slot 1; a wave and a marker on slot 1.
Configurations ==
    { Configuration(<<"A", None>>, <<None, None>>, <<"id", "id">>, <<1, 1>>, <<0, 0>>, FALSE),
      Configuration(<<"A", None>>, <<None, None>>, <<"id", "id">>, <<1, 1>>, <<0, 0>>, TRUE),
      Configuration(<<"A", "B">>, <<None, None>>, <<"id", "id">>, <<1, 2>>, <<0, 0>>, FALSE),
      Configuration(<<None, "B">>, <<None, None>>, <<"id", "id">>, <<2, 1>>, <<0, 0>>, FALSE),
      Configuration(<<"A", None>>, <<"M", None>>, <<"id", "id">>, <<2, 2>>, <<0, 0>>, FALSE) }

\* Configurations passed to HDAWGProgramManager.register: one wave channel, without
\* and with overwrite, and two wave channels of which the second is out of range.
ProgramConfigurations ==
    { Configuration(<<"A", None>>, <<None, None>>, <<"id", "id">>, <<1, 1>>, <<0, 0>>, FALSE),
      Configuration(<<"A", None>>, <<None, None>>, <<"id", "id">>, <<1, 1>>, <<0, 0>>, TRUE),
      Configuration(<<"A", "B">>, <<None, None>>, <<"id", "id">>, <<1, 1>>, <<0, 0>>, FALSE) }

\* Configurations of the registrations whose removal and renewal are examined: one
\* wave channel, and two wave channels of which the second is out of range.
RegistryConfigurations ==
    { Configuration(<<"A", None>>, <<None, None>>, <<"id", "id">>, <<1, 1>>, <<0, 0>>, FALSE),
      Configuration(<<"A", "B">>, <<None, None>>, <<"id", "id">>, <<1, 1>>, <<0, 0>>, FALSE) }

\* Configurations under which single trees are translated: one wave channel; a
\* marker alone on slot 1 and a wave alone on slot 2; a wave and a marker on slot 1;
\* no channel and no marker at all.
TranslateConfigurations ==
    { Configuration(<<"A", None>>, <<None, None>>, <<"id", "id">>, <<1, 1>>, <<0, 0>>, FALSE),
      Configuration(<<None, "B">>, <<"M", None>>, <<"id", "id">>, <<2, 2>>, <<0, 0>>, FALSE),
      Configuration(<<"A", None>>, <<"M", None>>, <<"id", "id">>, <<2, 2>>, <<0, 0>>, FALSE),
      Configuration(<<None, None>>, <<None, None>>, <<"id", "id">>, <<1, 1>>, <<0, 0>>, FALSE) }

\* Configurations of the calls whose names are recorded: one wave channel, and a wave
\* and a marker on slot 1 with a wider range.
NameConfigurations ==
    { Configuration(<<"A", None>>, <<None, None>>, <<"id", "id">>, <<1, 1>>, <<0, 0>>, FALSE),
      Configuration(<<"A", None>>, <<"M", None>>, <<"id", "id">>, <<2, 2>>, <<0, 0>>, FALSE) }

\* Reference names a caller may pass to remove: those in use and one unknown name.
RemovableNames == DictNames(wave_by_data) \cup DictNames(marker_by_data) \cup {"unknown"}

----------------------------------------------------------------------------
(* State *)

Cache == [w |-> wave_by_data, m |-> marker_by_data, f |-> files, ev |-> events,
          gv |-> given, prefix |-> AwgPrefix]

NoEvents == <<>>

\* HDAWGChannelGroup.__init__: no program is armed; the device has the program
\* selection register at its idle value, is not enabled and was sent no text.
NoGroup == [current_program |-> None, prog_sel |-> PROG_IDLE, enabled |-> FALSE,
            sourcestring |-> None]

\* No polling call is under way.
NoPoll == [pc |-> "idle"]

\* No second wave manager has been constructed.
NoPeer == [prefix |-> None, w |-> <<>>, m |-> <<>>]

\* The second wave manager: its own dictionaries and prefix, the same directory.
PeerCache == [w |-> peer.w, m |-> peer.m, f |-> files, ev |-> NoEvents, gv |-> {},
              prefix |-> peer.prefix]

\* Identifiers a second wave manager may be constructed with, all different from
\* AwgPrefix: an unrelated one, a leading part of AwgPrefix, and AwgPrefix
\* followed by "_M".
PeerPrefixes == {"dev_CD", "dev", "dev_AB_M"}

SetPeer(cs) ==
    /\ peer' = [prefix |-> cs.prefix, w |-> cs.w, m |-> cs.m]
    /\ files' = cs.f

SetCache(cs) ==
    /\ wave_by_data' = cs.w
    /\ marker_by_data' = cs.m
    /\ files' = cs.f
    /\ events' = cs.ev

\* HDAWGWaveManager.__init__ (which ends in clear) and HDAWGProgramManager.__init__.
Init ==
    /\ known_programs = <<>>
    /\ ambient = [channels |-> <<None, None>>, markers |-> <<None, None>>,
                  voltage_transformation |-> <<None, None>>,
                  sample_rate |-> TimeTypeZero,
                  output_range |-> <<1, 1>>, output_offset |-> <<0, 0>>,
                  overwrite |-> FALSE]
    /\ wave_by_data = <<>>
    /\ marker_by_data = <<>>
    /\ files = <<>>
    /\ events = NoEvents
    /\ given = {}
    /\ peer = NoPeer
    /\ leftover = {}
    /\ group = NoGroup
    /\ poll = NoPoll
    /\ inserted = <<>>
    /\ assigned = {}
    /\ fresh_run = TRUE
    /\ last = [op |-> "init"]

\* The state after construction, with a tree and a configuration drawn for one
\* call of register.
InitTranslate ==
    /\ known_programs = <<>>
    /\ ambient = [channels |-> <<None, None>>, markers |-> <<None, None>>,
                  voltage_transformation |-> <<None, None>>,
                  sample_rate |-> TimeTypeZero,
                  output_range |-> <<1, 1>>, output_offset |-> <<0, 0>>,
                  overwrite |-> FALSE]
    /\ wave_by_data = <<>>
    /\ marker_by_data = <<>>
    /\ files = <<>>
    /\ events = NoEvents
    /\ given = {}
    /\ peer = NoPeer
    /\ leftover = {}
    /\ group = NoGroup
    /\ poll = NoPoll
    /\ inserted = <<>>
    /\ assigned = {}
    /\ fresh_run = TRUE
    /\ last \in {[op |-> "drawn", program |-> p, args |-> c] :
                    p \in Trees, c \in TranslateConfigurations}

----------------------------------------------------------------------------
(* Calls on the wave manager *)

WMRegister(waveform, c) ==
    \E r \in {Register(Cache, waveform, c.channels, c.markers, c.voltage_transformation,
                         c.output_range, c.output_offset, c.overwrite)} :
        /\ Len(r.cs.w) + Len(r.cs.m) <= MaxCached
        /\ SetCache(r.cs)
        /\ last' = [op |-> "register", waveform |-> waveform, args |-> c,
                    ok |-> r.ok, error |-> r.error,
                    wave_name |-> r.wave_name, marker_name |-> r.marker_name]
        /\ UNCHANGED <<known_programs, ambient, given, peer, leftover, group, poll, inserted,
                       assigned,
                       fresh_run>>

\* register, with every look-up of the call added to the history of names given.
WMRegisterNoted(waveform, c) ==
    \E r \in {Register(Cache, waveform, c.channels, c.markers, c.voltage_transformation,
                         c.output_range, c.output_offset, c.overwrite)} :
        /\ Len(r.cs.w) + Len(r.cs.m) <= MaxCached
        /\ SetCache(r.cs)
        /\ given' = r.cs.gv
        /\ last' = [op |-> "register", waveform |-> waveform, args |-> c,
                    ok |-> r.ok, error |-> r.error,
                    wave_name |-> r.wave_name, marker_name |-> r.marker_name,
                    again |-> r.cs.gv = given]
        /\ UNCHANGED <<known_programs, ambient, peer, leftover, group, poll, inserted, assigned,
                       fresh_run>>

WMRegisterSingleChannels(waveform, c) ==
    \E r \in {RegisterSingleChannels(Cache, waveform, c.channels, c.markers,
                                       c.voltage_transformation, c.output_range,
                                       c.output_offset, c.overwrite)} :
        /\ Len(r.cs.w) + Len(r.cs.m) <= MaxCached
        /\ SetCache(r.cs)
        /\ last' = [op |-> "register_single_channels", waveform |-> waveform, args |-> c,
                    ok |-> r.ok, registered_names |-> r.registered_names]
        /\ UNCHANGED <<known_programs, ambient, given, peer, leftover, group, poll, inserted,
                       assigned,
                       fresh_run>>

WMRemove(name) ==
    \E r \in {Remove(Cache, name)} :
        /\ SetCache([r.cs EXCEPT !.ev = NoEvents])
        /\ last' = [op |-> "wm_remove", name |-> name, ok |-> r.ok]
        /\ UNCHANGED <<known_programs, ambient, given, peer, leftover, group, poll, inserted,
                       assigned,
                       fresh_run>>

WMClear ==
    /\ SetCache([Clear(Cache) EXCEPT !.ev = NoEvents])
    /\ last' = [op |-> "wm_clear", found |-> DOMAIN files]
    /\ UNCHANGED <<known_programs, ambient, given, peer, leftover, group, poll, inserted, assigned,
                   fresh_run>>

----------------------------------------------------------------------------
(* Calls on a second wave manager that shares the directory *)

\* __init__: the prefix is stored, the dictionaries are empty, clear is called.
PeerInit(prefix) ==
    /\ peer = NoPeer
    /\ SetPeer(Clear([PeerCache EXCEPT !.prefix = prefix]))
    /\ last' = [op |-> "peer_init", prefix |-> prefix]
    /\ UNCHANGED <<known_programs, ambient, wave_by_data, marker_by_data, events, given,
                   leftover, group, poll, inserted, assigned, fresh_run>>

PeerRegister(waveform, c) ==
    /\ peer # NoPeer
    /\ \E r \in {Register(PeerCache, waveform, c.channels, c.markers,
                            c.voltage_transformation, c.output_range, c.output_offset,
                            c.overwrite)} :
           /\ Len(r.cs.w) + Len(r.cs.m) <= MaxCached
           /\ SetPeer(r.cs)
           /\ last' = [op |-> "peer_register", waveform |-> waveform, args |-> c,
                       ok |-> r.ok, error |-> r.error,
                       wave_name |-> r.wave_name, marker_name |-> r.marker_name]
    /\ UNCHANGED <<known_programs, ambient, wave_by_data, marker_by_data, events, given,
                   leftover, group, poll, inserted, assigned, fresh_run>>

PeerRemove(name) ==
    /\ peer # NoPeer
    /\ \E r \in {Remove(PeerCache, name)} :
           /\ SetPeer(r.cs)
           /\ last' = [op |-> "peer_remove", name |-> name, ok |-> r.ok]
    /\ UNCHANGED <<known_programs, ambient, wave_by_data, marker_by_data, events, given,
                   leftover, group, poll, inserted, assigned, fresh_run>>

PeerClear ==
    /\ peer # NoPeer
    /\ SetPeer(Clear(PeerCache))
    /\ last' = [op |-> "peer_clear", found |-> DOMAIN files]
    /\ UNCHANGED <<known_programs, ambient, wave_by_data, marker_by_data, events, given,
                   leftover, group, poll, inserted, assigned, fresh_run>>

----------------------------------------------------------------------------
(* Calls on the program manager *)

\* Variant of the assignments with a defect: the sample rate is left as it was.
Overwritten_KeepRate(amb, c) ==
    [amb EXCEPT !.channels = c.channels,
                !.markers = c.markers,
                !.voltage_transformation = c.voltage_transformation,
                !.overwrite = c.overwrite,
                !.output_range = c.output_range,
                !.output_offset = c.output_offset]

\* register, its first seven statements: each field is assigned the argument.
Overwritten(amb, c) ==
    [amb EXCEPT !.channels = c.channels,
                !.markers = c.markers,
                !.voltage_transformation = c.voltage_transformation,
                !.sample_rate = c.sample_rate,
                !.overwrite = c.overwrite,
                !.output_range = c.output_range,
                !.output_offset = c.output_offset]

\* register: the ambient configuration is overwritten, the tree translated (which
\* registers its leaves in the cache), the index generated and the item stored.
\* When the translation raises, no item is stored.
PMRegister(name, program, c) ==
    \E t \in {ProgramToSeqc(program, Overwritten(ambient, c), Cache)} :
    LET index == GenerateProgramIndex(known_programs)
        entry == [name |-> name, program |-> program, index |-> index,
                  seqc_rep |-> t.lines]
    IN  /\ index <= MaxIndex
        /\ ambient' = Overwritten(ambient, c)
        /\ SetCache(t.cs)
        /\ given' = given
        /\ peer' = peer
        /\ leftover' = leftover
        /\ group' = group
        /\ poll' = poll
        /\ known_programs' = IF t.ok THEN SetItem(known_programs, entry) ELSE known_programs
        /\ inserted' = IF t.ok /\ name \notin Names(known_programs)
                       THEN Append(inserted, name) ELSE inserted
        /\ assigned' = IF t.ok THEN assigned \cup {index} ELSE assigned
        /\ fresh_run' = (fresh_run /\ (t.ok => name \notin Names(known_programs)))
        /\ last' = [op |-> "pm_register", name |-> name, ok |-> t.ok, index |-> index,
                    renewed |-> name \in Names(known_programs)]

\* The items of the dictionary after that the dictionary before did not have.
NewItems(ns, before, after) ==
    {<<ns, after[i].hash>> : i \in 1..Len(after)}
        \ {<<ns, before[i].hash>> : i \in 1..Len(before)}

\* register, with the program and the configuration passed added to the record of
\* the call; when traced, the look-ups are counted from the start of the call and
\* the items a raising call stored are added to the history.
PMRegisterHistory(name, program, c, traced) ==
    \E t \in {ProgramToSeqc(program, Overwritten(ambient, c),
                             IF traced THEN [Cache EXCEPT !.ev = NoEvents] ELSE Cache)} :
    LET index == GenerateProgramIndex(known_programs)
        entry == [name |-> name, program |-> program, index |-> index,
                  seqc_rep |-> t.lines]
    IN  /\ index <= MaxIndex
        /\ ambient' = Overwritten(ambient, c)
        /\ SetCache(t.cs)
        /\ given' = given
        /\ peer' = peer
        /\ leftover' = IF t.ok \/ ~traced THEN leftover
                       ELSE leftover \cup NewItems("%f", wave_by_data, t.cs.w)
                                     \cup NewItems("%d", marker_by_data, t.cs.m)
        /\ group' = group
        /\ poll' = poll
        /\ known_programs' = IF t.ok THEN SetItem(known_programs, entry) ELSE known_programs
        /\ inserted' = IF t.ok /\ name \notin Names(known_programs)
                       THEN Append(inserted, name) ELSE inserted
        /\ assigned' = IF t.ok THEN assigned \cup {index} ELSE assigned
        /\ fresh_run' = (fresh_run /\ (t.ok => name \notin Names(known_programs)))
        /\ last' = [op |-> "pm_register", name |-> name, ok |-> t.ok, index |-> index,
                    renewed |-> name \in Names(known_programs), program |-> program,
                    args |-> c]

PMRegisterNoted(name, program, c) == PMRegisterHistory(name, program, c, FALSE)

PMRegisterTraced(name, program, c) == PMRegisterHistory(name, program, c, TRUE)

\* Variant of remove with a defect: the wave manager is emptied as well.
PMRemove_Discarding(name) ==
    LET ok == name \in Names(known_programs)
        kp == IF ok THEN Pop(known_programs, name) ELSE known_programs
    IN  /\ known_programs' = kp
        /\ inserted' = IF ok THEN SelectSeq(inserted, LAMBDA n : n # name) ELSE inserted
        /\ fresh_run' = IF kp = <<>> THEN TRUE ELSE IF ok THEN FALSE ELSE fresh_run
        /\ last' = [op |-> "pm_remove", name |-> name, ok |-> ok,
                    error |-> IF ok THEN None ELSE "KeyError"]
        /\ SetCache(IF ok THEN Clear(Cache) ELSE Cache)
        /\ UNCHANGED <<ambient, given, peer, leftover, group, poll, assigned>>

\* remove: pop of the name; an unknown name raises KeyError.
PMRemove(name) ==
    LET ok == name \in Names(known_programs)
        kp == IF ok THEN Pop(known_programs, name) ELSE known_programs
    IN  /\ known_programs' = kp
        /\ inserted' = IF ok THEN SelectSeq(inserted, LAMBDA n : n # name) ELSE inserted
        /\ fresh_run' = IF kp = <<>> THEN TRUE ELSE IF ok THEN FALSE ELSE fresh_run
        /\ last' = [op |-> "pm_remove", name |-> name, ok |-> ok,
                    error |-> IF ok THEN None ELSE "KeyError"]
        /\ UNCHANGED <<ambient, wave_by_data, marker_by_data, files, events, given, peer,
                       leftover, group, poll, assigned>>

\* name_to_index: the index stored for the name; an unknown name raises KeyError.
PMNameToIndex(name) ==
    /\ last' = IF name \in Names(known_programs)
               THEN [op |-> "name_to_index", name |-> name, ok |-> TRUE, error |-> None,
                     index |-> NameToIndex(known_programs, name)]
               ELSE [op |-> "name_to_index", name |-> name, ok |-> FALSE,
                     error |-> "KeyError", index |-> None]
    /\ UNCHANGED <<known_programs, ambient, wave_by_data, marker_by_data, files, events,
                   given, peer, leftover, group, poll, inserted, assigned, fresh_run>>

\* HDAWGChannelGroup.remove: the call is passed on to the program manager, and
\* nothing else is done.
ChannelGroupRemove(name) ==
    LET ok == name \in Names(known_programs)
        kp == IF ok THEN Pop(known_programs, name) ELSE known_programs
    IN  /\ known_programs' = kp
        /\ inserted' = IF ok THEN SelectSeq(inserted, LAMBDA n : n # name) ELSE inserted
        /\ fresh_run' = IF kp = <<>> THEN TRUE ELSE IF ok THEN FALSE ELSE fresh_run
        /\ last' = [op |-> "group_remove", name |-> name, ok |-> ok,
                    error |-> IF ok THEN None ELSE "KeyError",
                    removed |-> IF ok THEN known_programs[Position(known_programs, name)]
                                ELSE None]
        /\ UNCHANGED <<ambient, wave_by_data, marker_by_data, files, events, given, peer,
                       leftover, group, poll, assigned>>

PMClear ==
    /\ known_programs' = <<>>
    /\ inserted' = <<>>
    /\ fresh_run' = TRUE
    /\ last' = [op |-> "pm_clear"]
    /\ UNCHANGED <<ambient, wave_by_data, marker_by_data, files, events, given, peer, leftover,
                   group, poll,
                   assigned>>

----------------------------------------------------------------------------
(* Calls on the channel group *)

\* num_channels and num_markers of the group: len(self._channels).
NumChannels == 2

\* self._device.range of the channels of the group.
ChannelRanges == <<1, 1>>

\* Names passed to the channel group: str values, the empty one among them.
GroupNames == {"p", ""}

\* The calls of upload examined: a program on one wave channel, without and with
\* force; a forced call with two wave channels of which the second is out of
\* range; and calls whose channels are too short, whose markers are too long and
\* whose transformations are too long.
UploadCall(program, channels, markers, voltage_transformation, force) ==
    [program |-> program, channels |-> channels, markers |-> markers,
     voltage_transformation |-> voltage_transformation, force |-> force]

UploadCalls ==
    { UploadCall(Node(2, <<Leaf("W1", 1)>>), <<"A", None>>, <<None, None>>,
                 <<"id", "id">>, FALSE),
      UploadCall(Node(1, <<Leaf("W1", 1), Leaf("W2", 3)>>), <<"A", None>>, <<None, None>>,
                 <<"id", "id">>, TRUE),
      UploadCall(Node(2, <<Leaf("W1", 1)>>), <<"A", "B">>, <<None, None>>,
                 <<"id", "id">>, TRUE),
      UploadCall(Node(2, <<Leaf("W1", 1)>>), <<"A">>, <<None, None>>,
                 <<"id", "id">>, FALSE),
      UploadCall(Node(2, <<Leaf("W1", 1)>>), <<"A", None>>, <<None, None, None>>,
                 <<"id", "id">>, TRUE),
      UploadCall(Node(1, <<Leaf("W1", 1), Leaf("W2", 3)>>), <<"A", None>>, <<None, None>>,
                 <<"id", "id", "id">>, TRUE) }

\* The one call of upload by which programs come to be armed.
ArmedCalls ==
    { UploadCall(Node(2, <<Leaf("W1", 1)>>), <<"A", None>>, <<None, None>>,
                 <<"id", "id">>, TRUE) }

\* What _poll_compile_and_upload_finished raises when it raises (None: it returns).
PollOutcomes ==
    {None, "HDAWGCompilationException", "HDAWGUploadException", "HDAWGTimeoutError"}

\* Variant of the length checks with a defect: the transformations are not counted.
LengthError_NoTransformations(channels, markers, voltage_transformation) ==
    IF Len(channels) # NumChannels THEN "Channel ID not specified"
    ELSE IF Len(markers) # NumChannels THEN "Markers not specified"
    ELSE None

\* upload, its three length checks: the message of the first that fails.
LengthError(channels, markers, voltage_transformation) ==
    IF Len(channels) # NumChannels THEN "Channel ID not specified"
    ELSE IF Len(markers) # NumChannels THEN "Markers not specified"
    ELSE IF Len(voltage_transformation) # NumChannels
    THEN "Wrong number of voltage transformations"
    ELSE None

\* Variant of the name check with a defect: force is not looked at.
NameTaken_Always(kp, name, force) == name \in Names(kp)

\* upload: name in self.programs and not force.
NameTaken(kp, name, force) == name \in Names(kp) /\ ~force

\* upload raises HDAWGValueError before it has changed anything.
UploadRejected(name, program, channels, markers, voltage_transformation, force, stage, msg) ==
    /\ last' = [op |-> "upload", name |-> name, program |-> program,
                args |-> <<channels, markers, voltage_transformation>>, force |-> force, ok |-> FALSE, error |-> "HDAWGValueError",
                stage |-> stage, msg |-> msg, sent |-> FALSE,
                known |-> name \in Names(known_programs)]
    /\ UNCHANGED <<known_programs, ambient, wave_by_data, marker_by_data, files, events,
                   given, peer, leftover, group, poll, inserted, assigned, fresh_run>>

\* upload after its checks: the program is registered with the ranges of the device,
\* offsets 0 and force for overwrite; when that returns, the text is assembled and
\* set as the source string of the compiler (an empty text raises HDAWGTypeError
\* before), and the call polls, which returns or raises.
UploadRegistered(name, program, channels, markers, voltage_transformation, force) ==
    \E t \in {ProgramToSeqc(program,
                             Overwritten(ambient,
                                 Configuration(channels, markers,
                                               voltage_transformation, ChannelRanges,
                                               <<0, 0>>, force)),
                             [Cache EXCEPT !.ev = NoEvents])} :
    LET index == GenerateProgramIndex(known_programs)
        entry == [name |-> name, program |-> program, index |-> index,
                  seqc_rep |-> t.lines]
        kp    == IF t.ok THEN SetItem(known_programs, entry) ELSE known_programs
        awg_sequence == AssembleSequencerProgram(kp)
        sent  == t.ok /\ awg_sequence # <<>>
    IN  /\ index <= MaxIndex
        /\ ambient' = Overwritten(ambient,
                           Configuration(channels, markers, voltage_transformation,
                                         ChannelRanges, <<0, 0>>, force))
        /\ SetCache(t.cs)
        /\ given' = given
        /\ peer' = peer
        /\ leftover' = leftover
        /\ poll' = poll
        /\ known_programs' = kp
        /\ inserted' = IF t.ok /\ name \notin Names(known_programs)
                       THEN Append(inserted, name) ELSE inserted
        /\ assigned' = IF t.ok THEN assigned \cup {index} ELSE assigned
        /\ fresh_run' = (fresh_run /\ (t.ok => name \notin Names(known_programs)))
        /\ group' = IF sent THEN [group EXCEPT !.sourcestring = awg_sequence] ELSE group
        /\ \E outcome \in PollOutcomes :
               /\ sent \/ outcome = None
               /\ last' = [op |-> "upload", name |-> name, program |-> program,
                           args |-> <<channels, markers, voltage_transformation>>,
                           force |-> force, ok |-> sent /\ outcome = None,
                           error |-> IF ~t.ok THEN "HDAWGValueError"
                                     ELSE IF ~sent THEN "HDAWGTypeError" ELSE outcome,
                           stage |-> IF ~t.ok THEN "register"
                                     ELSE IF ~sent THEN "sourcestring" ELSE "poll",
                           msg |-> None, sent |-> sent,
                           known |-> name \in Names(known_programs)]

\* HDAWGChannelGroup.upload.  The programs passed are compatible already, so that
\* make_compatible leaves them as they are.
Upload(name, program, channels, markers, voltage_transformation, force) ==
    IF LengthError(channels, markers, voltage_transformation) # None
    THEN UploadRejected(name, program, channels, markers, voltage_transformation, force,
                        "length", LengthError(channels, markers, voltage_transformation))
    ELSE IF NameTaken(known_programs, name, force)
    THEN UploadRejected(name, program, channels, markers, voltage_transformation, force,
                        "name", "is already known")
    ELSE UploadRegistered(name, program, channels, markers, voltage_transformation, force)

\* "if not name": None and the empty string.
NotName(name) == name = None \/ name = ""

\* HDAWGChannelGroup.arm.
Arm(name) ==
    /\ group' = IF NotName(name)
                THEN [group EXCEPT !.prog_sel = PROG_IDLE, !.current_program = None]
                ELSE IF name \notin Names(known_programs) THEN group
                ELSE [group EXCEPT !.current_program = name,
                                   !.prog_sel = NameToIndex(known_programs, name)]
    /\ last' = [op |-> "arm", name |-> name,
                ok |-> NotName(name) \/ name \in Names(known_programs),
                error |-> IF NotName(name) \/ name \in Names(known_programs)
                          THEN None ELSE "HDAWGValueError",
                known |-> name \in Names(known_programs)]
    /\ UNCHANGED <<known_programs, ambient, wave_by_data, marker_by_data, files, events,
                   given, peer, leftover, poll, inserted, assigned, fresh_run>>

\* HDAWGChannelGroup.run_current_program: the device is enabled anew when the armed
\* program is registered.
RunCurrentProgram ==
    /\ group' = IF group.current_program # None
                   /\ group.current_program \in Names(known_programs)
                THEN [group EXCEPT !.enabled = TRUE] ELSE group
    /\ last' = [op |-> "run_current_program",
                ok |-> group.current_program # None
                       /\ group.current_program \in Names(known_programs),
                error |-> IF group.current_program = None THEN "HDAWGRuntimeError"
                          ELSE IF group.current_program \notin Names(known_programs)
                          THEN "HDAWGValueError" ELSE None]
    /\ UNCHANGED <<known_programs, ambient, wave_by_data, marker_by_data, files, events,
                   given, peer, leftover, poll, inserted, assigned, fresh_run>>

\* HDAWGChannelGroup.clear: the program manager and the wave manager are cleared
\* and no program is armed.
ChannelGroupClear ==
    /\ known_programs' = <<>>
    /\ inserted' = <<>>
    /\ fresh_run' = TRUE
    /\ SetCache([Clear(Cache) EXCEPT !.ev = NoEvents])
    /\ group' = [group EXCEPT !.current_program = None]
    /\ last' = [op |-> "group_clear"]
    /\ UNCHANGED <<ambient, given, peer, leftover, poll, assigned>>

----------------------------------------------------------------------------
(* _upload_sourcestring and the polling of the compiler and of the upload *)

\* Values of self._timeout, in sleeps of the polling loops.
Timeouts == {1, 2}

\* The channel group constructed with a timeout; no polling call is under way.
\* status is awgModule/compiler/status (-1 while the compiler runs, 0 success,
\* 1 failure, 2 success with warnings), progress stands for awgModule/progress
\* (0 below 1.0, 1 from 1.0 on), elf is awgModule/elf/status (1 failure, 0 success,
\* -1 before).  elapsed is time.time() - time_start, counted in sleeps; every value
\* above the timeout is kept as timeout + 1, and beat, the parity of the sleeps
\* taken, tells one sleep from the next.
PollIdle(timeout) ==
    [pc |-> "idle", timeout |-> timeout, elapsed |-> 0, beat |-> 0, status |-> 0,
     progress |-> 0, elf |-> -1, error |-> None]

\* time.sleep: the time goes on.
Slept(pl) ==
    [pl EXCEPT !.elapsed = IF @ > pl.timeout THEN @ ELSE @ + 1, !.beat = 1 - @]

PollFrame ==
    UNCHANGED <<known_programs, ambient, wave_by_data, marker_by_data, files, events,
                given, peer, leftover, inserted, assigned, fresh_run>>

\* _upload_sourcestring up to the call of the polling: an empty text raises
\* HDAWGTypeError; else the text is set, on which the compiler starts, and the
\* polling takes time_start.
UploadSourcestring(sourcestring) ==
    /\ poll.pc \in {"idle", "returned", "raised"}
    /\ IF sourcestring = <<>>
       THEN /\ last' = [op |-> "upload_sourcestring", ok |-> FALSE,
                        error |-> "HDAWGTypeError"]
            /\ UNCHANGED <<group, poll>>
       ELSE /\ last' = [op |-> "upload_sourcestring", ok |-> TRUE, error |-> None]
            /\ group' = [group EXCEPT !.sourcestring = sourcestring]
            /\ poll' = [PollIdle(poll.timeout) EXCEPT !.pc = "compiling", !.status = -1]
    /\ PollFrame

\* The first loop while the compiler status is -1: sleep.
PollCompileWait ==
    /\ poll.pc = "compiling" /\ poll.status = -1
    /\ poll' = Slept(poll)
    /\ last' = [op |-> "poll", at |-> "compiler sleep"]
    /\ group' = group
    /\ PollFrame

\* After the first loop: the time is compared with the timeout, then the compiler
\* status with 1.
PollCompileDone ==
    /\ poll.pc = "compiling" /\ poll.status # -1
    /\ poll' = IF poll.elapsed > poll.timeout
               THEN [poll EXCEPT !.pc = "raised", !.error = "HDAWGTimeoutError"]
               ELSE IF poll.status = 1
               THEN [poll EXCEPT !.pc = "raised", !.error = "HDAWGCompilationException"]
               ELSE [poll EXCEPT !.pc = "uploading"]
    /\ last' = [op |-> "poll", at |-> "compiler checks"]
    /\ group' = group
    /\ PollFrame

\* The second loop while progress is below 1.0 and the elf status is not 1: sleep,
\* then compare the time with the timeout.
PollUploadWait ==
    /\ poll.pc = "uploading" /\ poll.progress < 1 /\ poll.elf # 1
    /\ poll' = IF Slept(poll).elapsed > poll.timeout
               THEN [Slept(poll) EXCEPT !.pc = "raised", !.error = "HDAWGTimeoutError"]
               ELSE Slept(poll)
    /\ last' = [op |-> "poll", at |-> "upload sleep"]
    /\ group' = group
    /\ PollFrame

\* After the second loop: the elf status 1 raises, every other one returns.
PollUploadDone ==
    /\ poll.pc = "uploading" /\ ~(poll.progress < 1 /\ poll.elf # 1)
    /\ poll' = IF poll.elf = 1
               THEN [poll EXCEPT !.pc = "raised", !.error = "HDAWGUploadException"]
               ELSE [poll EXCEPT !.pc = "returned"]
    /\ last' = [op |-> "poll", at |-> "upload checks"]
    /\ group' = group
    /\ PollFrame

\* The steps of the polling call.
PollStep == PollCompileWait \/ PollCompileDone \/ PollUploadWait \/ PollUploadDone

\* The data server ends the compilation with a status.
DeviceCompiled(status) ==
    /\ poll.pc \in {"compiling", "uploading"} /\ poll.status = -1
    /\ poll' = [poll EXCEPT !.status = status]
    /\ last' = [op |-> "device", at |-> "compiler"]
    /\ group' = group
    /\ PollFrame

\* The upload of a compiled program ends, well or not.
DeviceUploaded(elf) ==
    /\ poll.pc \in {"compiling", "uploading"} /\ poll.status \in {0, 2} /\ poll.elf = -1
    /\ poll' = [poll EXCEPT !.elf = elf, !.progress = IF elf = 0 THEN 1 ELSE @]
    /\ last' = [op |-> "device", at |-> "upload"]
    /\ group' = group
    /\ PollFrame

----------------------------------------------------------------------------
(* Specifications *)

\* The program manager and, through its translator, the wave manager.
Next ==
    \/ \E n \in ProgNames, p \in Programs, c \in ProgramConfigurations : PMRegister(n, p, c)
    \/ \E n \in ProgNames : PMRemove(n)
    \/ PMClear

Spec == Init /\ [][Next]_vars

\* The program manager with its queries, and the channel group's remove.
NextRegistry ==
    \/ \E n \in ProgNames, p \in Programs, c \in RegistryConfigurations :
           PMRegisterNoted(n, p, c)
    \/ \E n \in ProgNames : PMRemove(n)
    \/ \E n \in ProgNames : PMNameToIndex(n)
    \/ \E n \in ProgNames : ChannelGroupRemove(n)
    \/ PMClear

SpecRegistry == Init /\ [][NextRegistry]_vars

\* The wave manager called directly.
NextCache ==
    \/ \E w \in WaveformIDs, c \in Configurations : WMRegister(w, c)
    \/ \E w \in WaveformIDs, c \in Configurations : WMRegisterSingleChannels(w, c)
    \/ \E n \in RemovableNames : WMRemove(n)
    \/ WMClear

SpecCache == Init /\ [][NextCache]_vars

\* register_single_channels called directly with slots used in every way.
NextSlots ==
    \/ \E w \in WaveformIDs, c \in TranslateConfigurations :
           WMRegisterSingleChannels(w, c)
    \/ \E n \in RemovableNames : WMRemove(n)
    \/ WMClear

SpecSlots == Init /\ [][NextSlots]_vars

\* The wave manager called directly, with the history of the names register gave.
NextNames ==
    \/ \E w \in WaveformIDs, c \in NameConfigurations : WMRegisterNoted(w, c)
    \/ \E w \in WaveformIDs, c \in NameConfigurations : WMRegisterSingleChannels(w, c)
    \/ \E n \in RemovableNames : WMRemove(n)
    \/ WMClear

SpecNames == Init /\ [][NextNames]_vars

\* Two wave managers with different prefixes on one directory.
NextShared ==
    \/ \E w \in WaveformIDs, c \in NameConfigurations : WMRegister(w, c)
    \/ \E n \in RemovableNames : WMRemove(n)
    \/ WMClear
    \/ \E prefix \in PeerPrefixes : PeerInit(prefix)
    \/ \E w \in WaveformIDs, c \in NameConfigurations : PeerRegister(w, c)
    \/ \E n \in DictNames(peer.w) \cup DictNames(peer.m) : PeerRemove(n)
    \/ PeerClear

SpecShared == Init /\ [][NextShared]_vars

\* The program manager with register calls that raise partway.
NextPartial ==
    \/ \E n \in {"p", "q"}, p \in Programs, c \in ProgramConfigurations :
           PMRegisterTraced(n, p, c)
    \/ \E n \in {"p", "q"} : PMRemove(n)

SpecPartial == Init /\ [][NextPartial]_vars

\* The channel group with uploads that are rejected, fail or are forced, while a
\* program is armed or none is.
NextGroup ==
    \/ \E u \in UploadCalls :
           Upload("p", u.program, u.channels, u.markers, u.voltage_transformation, u.force)
    \/ \E n \in {"p", None} : Arm(n)
    \/ ChannelGroupClear

SpecGroup == Init /\ [][NextGroup]_vars

\* The channel group with programs armed, run and removed.
NextArm ==
    \/ \E n \in GroupNames, u \in ArmedCalls :
           Upload(n, u.program, u.channels, u.markers, u.voltage_transformation, u.force)
    \/ \E n \in GroupNames \cup {None, "q"} : Arm(n)
    \/ RunCurrentProgram
    \/ \E n \in GroupNames : ChannelGroupRemove(n)

SpecArm == Init /\ [][NextArm]_vars

\* Texts are sent to the device and polled for; the device answers or does not.
InitPoll ==
    /\ known_programs = <<>>
    /\ ambient = [channels |-> <<None, None>>, markers |-> <<None, None>>,
                  voltage_transformation |-> <<None, None>>,
                  sample_rate |-> TimeTypeZero,
                  output_range |-> <<1, 1>>, output_offset |-> <<0, 0>>,
                  overwrite |-> FALSE]
    /\ wave_by_data = <<>>
    /\ marker_by_data = <<>>
    /\ files = <<>>
    /\ events = NoEvents
    /\ given = {}
    /\ peer = NoPeer
    /\ leftover = {}
    /\ group = NoGroup
    /\ poll \in {PollIdle(timeout) : timeout \in Timeouts}
    /\ inserted = <<>>
    /\ assigned = {}
    /\ fresh_run = TRUE
    /\ last = [op |-> "init"]

NextPoll ==
    \/ \E text \in {<<>>, AssembleSequencerProgram(known_programs)} :
           UploadSourcestring(text)
    \/ PollStep
    \/ \E status \in {0, 1, 2} : DeviceCompiled(status)
    \/ \E elf \in {0, 1} : DeviceUploaded(elf)

\* The polling call keeps running: its thread is never suspended for good.  No
\* answer of the device is taken for granted.
SpecPoll == InitPoll /\ [][NextPoll]_vars /\ WF_vars(PollStep)

\* One tree translated by one register call on a new program manager.
NextTranslate ==
    /\ last.op = "drawn"
    /\ \E n \in ProgNames : PMRegisterNoted(n, last.program, last.args)

SpecTranslate == InitTranslate /\ [][NextTranslate]_vars

----------------------------------------------------------------------------
(* Properties of the program registry *)

MaxOf(S) == CHOOSE m \in S : \A x \in S : m >= x

IndexSet(kp) == {kp[i].index : i \in 1..Len(kp)}

\* The step just taken is a register call that stored an item.
Registered == last'.op = "pm_register" /\ last'.ok

\* The index of the item that step stored.
StoredIndex == NameToIndex(known_programs', last'.name)

\* C1 as stated: the index a register call stores is greater than every index the
\* registry handed out before, so an index of a removed item is never handed out again.
C1_NeverReassigned ==
    [][Registered => \A i \in assigned : StoredIndex > i]_vars

\* C1, amended: the index a register call stores is one more than the index of the
\* item that was last in dictionary order just before the call, and 1 when the
\* registry was empty; it may equal an index handed out before.
C1_OneMoreThanLast ==
    [][Registered =>
          StoredIndex = (IF known_programs = <<>> THEN 1
                         ELSE known_programs[Len(known_programs)].index + 1)]_vars

\* A register call has stored an index below one handed out earlier.
C1_Witness ==
    /\ last.op = "pm_register" /\ last.ok
    /\ \E i \in assigned : i > NameToIndex(known_programs, last.name)

\* C2: every register call stores the maximum index present before the call plus
\* one, or 1 when the registry held no item.
C2_MaxPlusOne ==
    [][Registered =>
          StoredIndex = (IF known_programs = <<>> THEN 1
                         ELSE MaxOf(IndexSet(known_programs)) + 1)]_vars

\* C3: registering a name that is registered gives it an index other than the one
\* it held just before the call.
C3_NewIndexDiffers ==
    [][(Registered /\ last'.name \in Names(known_programs)) =>
          StoredIndex # NameToIndex(known_programs, last'.name)]_vars

\* C4: while only new names have been registered since the registry was empty, the
\* k-th registered name is the k-th item and has index k.
C4_FreshIndices ==
    fresh_run =>
        /\ Len(known_programs) = Len(inserted)
        /\ \A k \in 1..Len(known_programs) :
              known_programs[k].name = inserted[k] /\ known_programs[k].index = k

\* Three new names were registered in a row.
C4_Witness ==
    fresh_run /\ Len(known_programs) = 3 /\ last.op = "pm_register" /\ last.ok

\* C5: no item has index 0, the idle value of the program-select register; all
\* indices are at least 1.
C5_NoIdleIndex ==
    \A i \in 1..Len(known_programs) :
        known_programs[i].index >= 1 /\ known_programs[i].index # PROG_IDLE

\* A registered name was registered again while another item was present.
C5_Witness ==
    last.op = "pm_register" /\ last.ok /\ last.renewed /\ Len(known_programs) >= 2

----------------------------------------------------------------------------
(* Properties of the assembled document *)

Document == AssembleSequencerProgram(known_programs)

\* The positions of the lines of a kind.
LinesOf(doc, kind) == {i \in 1..Len(doc) : doc[i].kind = kind}

\* The lines between the case line at position i and the "// end of" line that
\* closes its arm.
ArmBody(doc, i) ==
    LET end == CHOOSE j \in (i + 1)..Len(doc) :
                   /\ doc[j].kind = "// end of"
                   /\ \A m \in (i + 1)..(j - 1) : doc[m].kind # "// end of"
    IN  SubSeq(doc, i + 1, end - 1)

ArmEnd(doc, i) == doc[i + Len(ArmBody(doc, i)) + 1]

\* The names on the case lines, in document order.
ArmNames(doc) ==
    LET cases == SelectSeq(doc, LAMBDA l : l.kind = "case")
    IN  [i \in 1..Len(cases) |-> cases[i].name]

\* C6: the document has exactly one dispatch arm per registered name, labelled with
\* the index the name has now and holding its stored text, exactly one default arm,
\* and no arm for any other name.
C6_OneArmPerProgram ==
    LET doc == Document
        cases == LinesOf(doc, "case")
        switch == CHOOSE i \in LinesOf(doc, "switch(prog_sel){") : TRUE
        default == CHOOSE i \in LinesOf(doc, "default:") : TRUE
    IN  /\ Cardinality(cases) = Len(known_programs)
        /\ Cardinality(LinesOf(doc, "default:")) = 1
        /\ Cardinality(LinesOf(doc, "switch(prog_sel){")) = 1
        /\ \A i \in cases : switch < i /\ i < default /\ doc[i].name \in Names(known_programs)
        /\ \A k \in 1..Len(known_programs) :
              \E i \in cases :
                  /\ doc[i].name = known_programs[k].name
                  /\ \A j \in cases : doc[j].name = doc[i].name => j = i
                  /\ doc[i].num = known_programs[k].index
                  /\ doc[i].ind = doc[default].ind
                  /\ Len(ArmBody(doc, i)) = Len(known_programs[k].seqc_rep)
                  /\ \A m \in 1..Len(ArmBody(doc, i)) :
                        LET got == ArmBody(doc, i)[m]
                            had == known_programs[k].seqc_rep[m]
                        IN  /\ [got EXCEPT !.ind = 0] = [had EXCEPT !.ind = 0]
                            /\ got.ind = IF IsBlank(had) THEN had.ind ELSE had.ind + 12
                  /\ ArmEnd(doc, i).name = known_programs[k].name

\* One of three registered programs was removed; two arms remain.
C6_Witness ==
    last.op = "pm_remove" /\ last.ok /\ Len(known_programs) = 2

\* The names on the arms of the document assembled from a registry.
ArmsOf(kp) == ArmNames(AssembleSequencerProgram(kp))

\* C7: the arms stand in the order in which the registered names entered the
\* registry, oldest first: a new name's arm goes last, a name registered again keeps
\* its arm's place, and a removal leaves the order of the other arms as it was.
C7_ArmOrder ==
    [][\E before \in {ArmsOf(known_programs)} : \E after \in {ArmsOf(known_programs')} :
          /\ (last'.op = "pm_register" /\ last'.ok /\ ~last'.renewed) =>
                 after = Append(before, last'.name)
          /\ (last'.op = "pm_register" /\ last'.ok /\ last'.renewed) =>
                 after = before
          /\ (last'.op = "pm_remove" /\ last'.ok) =>
                 after = SelectSeq(before, LAMBDA n : n # last'.name)
          /\ after = inserted']_vars

\* The older of two registered names was registered again.
C7_Witness ==
    /\ last.op = "pm_register" /\ last.ok /\ last.renewed
    /\ Len(known_programs) = 2
    /\ inserted[1] = last.name

----------------------------------------------------------------------------
(* Properties of the wave manager *)

\* The files that hold a table saved with a format.
FilesWith(data, fmt) ==
    {p \in DOMAIN files : files[p].fmt = fmt /\ files[p].rows = data.rows}

\* Two look-ups in a row of the same content, both without overwrite, the first of
\* which found the content new: no item for its hash and no file of its name.
SameContentTwice ==
    /\ Len(events) = 2
    /\ events[1].ns = events[2].ns
    /\ events[1].data = events[2].data
    /\ ~events[1].overwrite /\ ~events[2].overwrite
    /\ ~events[1].hit /\ ~events[1].existed

\* C8: content new to the cache that is registered twice in a row without overwrite
\* (two calls, or two leaves of one program with equal samples on the same channel)
\* gets the same reference both times, is saved once, by the first of the two, and
\* has exactly one file afterwards.
C8_DedupIdempotent ==
    SameContentTwice =>
        /\ ~events[1].raised /\ ~events[2].raised
        /\ events[1].name = events[2].name
        /\ events[1].wrote /\ ~events[2].wrote
        /\ events[2].hit
        /\ FilesWith(events[2].data, events[2].ns) = {FullFilePath(events[2].name)}

\* The program of two leaves whose samples agree was registered into an empty cache.
C8_Witness ==
    /\ SameContentTwice
    /\ last.op = "pm_register" /\ last.ok
    /\ Len(known_programs) = 1
    /\ Len(known_programs[1].program.children) = 2
    /\ Len(wave_by_data) = 1
    /\ Cardinality(DOMAIN files) = 1

\* C9 as stated: a look-up that finds the hash recorded returns the recorded name and
\* saves nothing; a file is saved only when the hash was not recorded.
C9_NoWriteOnHit ==
    \A i \in 1..Len(events) :
        /\ events[i].hit => (events[i].name = events[i].known_as /\ ~events[i].wrote)
        /\ events[i].wrote => ~events[i].hit

\* C9: a look-up that finds the hash recorded returns the recorded name; one that
\* does not mints a name and records it; in both cases the table is saved exactly
\* when overwrite is set or no file of that name exists, and saving never fails.
C9_WriteIffOverwriteOrMissing ==
    \A i \in 1..Len(events) :
        /\ events[i].hit => events[i].name = events[i].known_as
        /\ ~events[i].hit => (events[i].name = events[i].minted
                              /\ events[i].recorded = events[i].minted)
        /\ events[i].wrote <=> (events[i].overwrite \/ ~events[i].existed)
        /\ ~events[i].raised

\* A look-up with overwrite found the hash recorded and its file present, and saved.
C9_Witness ==
    \E i \in 1..Len(events) :
        events[i].hit /\ events[i].existed /\ events[i].overwrite /\ events[i].wrote

\* What the samples of slot idx become with the slot's own transformation, range
\* and offset.
OwnConversion(waveform, c, idx) ==
    VoltToAmp([k \in 1..NSamplesOf(waveform) |->
                  ApplyTransformation(c.voltage_transformation[idx],
                                      GetSampled(waveform, c.channels[idx])[k])],
              c.output_range[idx], c.output_offset[idx])

\* The slots that carry a wave channel.
WaveSlots(c) == {idx \in 1..Len(c.channels) : c.channels[idx] # None}

\* C10: register_single_channels checks and scales the samples of every slot with the
\* slot's own range and offset: it returns only when every wave slot is within its
\* own range, each amplitude it saved is the slot's own normalisation, and it raises
\* only when some wave slot is outside its own range.
C10_OwnRangePerSlot ==
    last.op = "register_single_channels" =>
        /\ last.ok =>
              \A n \in 1..Len(last.registered_names) :
                  LET e == last.registered_names[n]
                      own == OwnConversion(last.waveform, last.args, e.zi_channel_idx)
                  IN  e.qupulse_channel_name # None =>
                          /\ own.ok
                          /\ e.amplitude.rows = [k \in 1..Len(own.amp) |-> <<own.amp[k]>>]
        /\ ~last.ok =>
              \E idx \in WaveSlots(last.args) :
                  ~OwnConversion(last.waveform, last.args, idx).ok

\* Some sample of a wave channel of the call, after the slot's transformation, lies
\* further from the slot's offset than the slot's range.
OutOfRange(waveform, c) ==
    \E idx \in WaveSlots(c) : \E k \in 1..NSamplesOf(waveform) :
        Abs(ApplyTransformation(c.voltage_transformation[idx],
                                GetSampled(waveform, c.channels[idx])[k])
            - c.output_offset[idx]) > c.output_range[idx]

\* C11: a register call with a sample further from the offset than the range raises
\* the value error, saves no file and records no item; a call whose samples are all
\* within the range, the edge included, returns.
C11_RangeEnforced ==
    [][last'.op = "register" =>
          IF OutOfRange(last'.waveform, last'.args)
          THEN /\ ~last'.ok /\ last'.error = "HDAWGValueError"
               /\ files' = files
               /\ wave_by_data' = wave_by_data
               /\ marker_by_data' = marker_by_data
          ELSE last'.ok]_vars

\* A register call raised the value error while the cache held a file.
C11_Witness ==
    /\ last.op = "register" /\ ~last.ok /\ last.error = "HDAWGValueError"
    /\ OutOfRange(last.waveform, last.args)
    /\ files # <<>>

\* No two items of a dictionary with different hashes carry the same name.
NamesDiffer(d) ==
    \A i, j \in 1..Len(d) : d[i].hash # d[j].hash => d[i].name # d[j].name

\* C12: contents with different hashes never get the same name, in the wave
\* dictionary and in the marker dictionary alike, and no wave name is a marker name.
C12_UniqueNames ==
    /\ NamesDiffer(wave_by_data)
    /\ NamesDiffer(marker_by_data)
    /\ DictNames(wave_by_data) \cap DictNames(marker_by_data) = {}

\* C13: the same content always gets the same name, whatever calls happened
\* between two registrations of it.
C13_SameContentSameName ==
    \A a, b \in given : (a.ns = b.ns /\ a.data = b.data) => a.name = b.name

\* A register call all of whose contents had been given a name before, and whose
\* last look-up missed: the item was removed or cleared in between.
C13_Witness ==
    /\ last.op = "register" /\ last.ok /\ last.again
    /\ events # <<>>
    /\ ~events[Len(events)].hit

----------------------------------------------------------------------------
(* remove of the wave manager *)

\* The dictionary (wave or marker) whose loop finds the name first, if any.
Holder(w, m, name) ==
    IF name \in DictNames(w) THEN "w" ELSE IF name \in DictNames(m) THEN "m" ELSE None

\* Every item of d has its file in f.
AllOnDisk(d, f) == \A i \in 1..Len(d) : FileExists(f, d[i].name)

\* C14: remove(name) deletes the first item whose name matches, and its file, and
\* leaves every other item and file as it was; a name no item has changes
\* nothing and raises nothing.
C14_RemoveFirstOnly ==
    [][last'.op = "wm_remove" =>
          /\ last'.ok
          /\ Holder(wave_by_data, marker_by_data, last'.name) = None =>
                 /\ wave_by_data' = wave_by_data
                 /\ marker_by_data' = marker_by_data
                 /\ files' = files
          /\ Holder(wave_by_data, marker_by_data, last'.name) = "w" =>
                 /\ wave_by_data' = DictDel(wave_by_data, DictFirst(wave_by_data, last'.name))
                 /\ marker_by_data' = marker_by_data
                 /\ files' = FileDrop(files, {FullFilePath(last'.name)})
          /\ Holder(wave_by_data, marker_by_data, last'.name) = "m" =>
                 /\ marker_by_data' = DictDel(marker_by_data,
                                              DictFirst(marker_by_data, last'.name))
                 /\ wave_by_data' = wave_by_data
                 /\ files' = FileDrop(files, {FullFilePath(last'.name)})
          /\ AllOnDisk(wave_by_data, files) => AllOnDisk(wave_by_data', files')
          /\ AllOnDisk(marker_by_data, files) => AllOnDisk(marker_by_data', files')]_vars

----------------------------------------------------------------------------
(* clear of the wave manager *)

\* The path starts with the prefix followed by "_", as every name this manager
\* generates does.
HasPrefix(path, prefix) ==
    /\ Len(path) > Len(prefix)
    /\ SubSeq(path, 1, Len(prefix) + 1) = prefix \o "_"

\* C15: after clear both dictionaries are empty and no file whose name starts
\* with the prefix of this manager is left.
C15_ClearEmpties ==
    [][last'.op = "wm_clear" =>
          /\ wave_by_data' = <<>>
          /\ marker_by_data' = <<>>
          /\ \A p \in DOMAIN files' : ~HasPrefix(p, AwgPrefix)]_vars

\* clear was called on a manager holding a wave item, a marker item and their
\* files.
C15_Witness ==
    /\ last.op = "wm_clear"
    /\ Cardinality(last.found) >= 2
    /\ \E p \in last.found : HasPrefix(p, AwgPrefix \o "_M")
    /\ files = <<>>

----------------------------------------------------------------------------
(* Two wave managers on one directory *)

OwnCalls == {"register", "wm_remove", "wm_clear"}

PeerCalls == {"peer_init", "peer_register", "peer_remove", "peer_clear"}

\* Every file of an item of d that is in f is in g with the same content.
Kept(d, f, g) ==
    \A i \in 1..Len(d) :
        FileExists(f, d[i].name) =>
            /\ FileExists(g, d[i].name)
            /\ g[FullFilePath(d[i].name)].fmt = f[FullFilePath(d[i].name)].fmt
            /\ g[FullFilePath(d[i].name)].rows = f[FullFilePath(d[i].name)].rows

\* C16: no call on one wave manager (its construction included) deletes or
\* overwrites a file of an item of the other one, whatever the two prefixes.
C16_Isolated ==
    [][/\ last'.op \in PeerCalls =>
              Kept(wave_by_data, files, files') /\ Kept(marker_by_data, files, files')
       /\ last'.op \in OwnCalls =>
              Kept(peer.w, files, files') /\ Kept(peer.m, files, files')]_vars

----------------------------------------------------------------------------
(* remove and name_to_index of the program manager *)

\* C17: remove and name_to_index of a name that is not registered raise KeyError
\* and leave the registry as it was; remove of a registered name deletes that
\* item and no other, and the name is no longer among the programs.
C17_LookupErrors ==
    [][/\ (last'.op \in {"pm_remove", "name_to_index"}
               /\ last'.name \notin Names(known_programs)) =>
              /\ ~last'.ok
              /\ last'.error = "KeyError"
              /\ known_programs' = known_programs
       /\ (last'.op = "pm_remove" /\ last'.name \in Names(known_programs)) =>
              /\ last'.ok
              /\ known_programs' = SelectSeq(known_programs,
                                             LAMBDA e : e.name # last'.name)
              /\ Len(known_programs') = Len(known_programs) - 1
              /\ last'.name \notin Names(known_programs')]_vars

\* A registered name was removed while two other programs stay registered.
C17_Witness ==
    /\ last.op = "pm_remove" /\ last.ok
    /\ Len(known_programs) = 2
    /\ last.name \notin Names(known_programs)

\* C18: remove of the program manager leaves the wave manager as it was: both
\* dictionaries and every file, also those only the removed program refers to.
C18_RemoveKeepsWaves ==
    [][last'.op = "pm_remove" =>
          /\ wave_by_data' = wave_by_data
          /\ marker_by_data' = marker_by_data
          /\ files' = files]_vars

\* The only registered program was removed; the waves it registered are still in
\* the dictionary and on disk.
C18_Witness ==
    /\ last.op = "pm_remove" /\ last.ok
    /\ known_programs = <<>>
    /\ wave_by_data # <<>>
    /\ AllOnDisk(wave_by_data, files)

----------------------------------------------------------------------------
(* remove of the channel group *)

\* The wave and marker names the playWave lines of a translated program refer to.
Referenced(entry) ==
    UNION { {entry.seqc_rep[i].ops[k].wf, entry.seqc_rep[i].ops[k].mk} :
              <<i, k>> \in { <<i, k>> \in (1..Len(entry.seqc_rep)) \X (1..2) :
                               k <= Len(entry.seqc_rep[i].ops) } } \ {None}

\* The names only the given item refers to, among the items of kp.
ReferencedOnlyBy(entry, kp) ==
    Referenced(entry) \ UNION {Referenced(kp[i]) : i \in 1..Len(kp)}

\* C19: remove of the channel group removes the program and discards every
\* waveform only that program refers to, from the dictionaries and from disk.
C19_RemoveDiscardsWaves ==
    [][(last'.op = "group_remove" /\ last'.ok) =>
          /\ last'.name \notin Names(known_programs')
          /\ \A n \in ReferencedOnlyBy(last'.removed, known_programs') :
                 /\ n \notin DictNames(wave_by_data') \cup DictNames(marker_by_data')
                 /\ ~FileExists(files', n)]_vars

----------------------------------------------------------------------------
(* register of the program manager with a name already registered *)

\* The items of kp stored under the name.
ItemsOf(kp, name) == {i \in 1..Len(kp) : kp[i].name = name}

\* C20: register with a name already registered is not rejected for that reason
\* (it raises only when the translation raises); the item of the name is replaced
\* by the program and its new translation, the set of names stays the same and
\* the name has exactly one item.
C20_Renewal ==
    [][(last'.op = "pm_register" /\ last'.renewed) =>
          \E t \in {ProgramToSeqc(last'.program, ambient', Cache)} :
              /\ last'.ok = t.ok
              /\ Names(known_programs') = Names(known_programs)
              /\ Cardinality(ItemsOf(known_programs', last'.name)) = 1
              /\ last'.ok =>
                     /\ known_programs'[Position(known_programs', last'.name)].program
                            = last'.program
                     /\ known_programs'[Position(known_programs', last'.name)].seqc_rep
                            = t.lines]_vars

\* A name registered with one program was registered again with another program,
\* whose translation differs.
C20_Witness ==
    /\ last.op = "pm_register" /\ last.renewed /\ last.ok
    /\ \E i \in 1..Len(inserted) : inserted[i] = last.name
    /\ Len(known_programs) = 2
    /\ known_programs[1].program # known_programs[2].program
    /\ known_programs[1].seqc_rep # known_programs[2].seqc_rep

----------------------------------------------------------------------------
(* The tuples register_single_channels returns *)

\* The slots of a configuration that have a channel or a marker.
UsedSlots(c) ==
    {idx \in 1..Len(c.channels) : c.channels[idx] # None \/ c.markers[idx] # None}

\* C22: register_single_channels returns one tuple per slot that has a channel or
\* a marker, in ascending slot order with the 1-based slot index; a tuple has a
\* wave name exactly when its slot has a channel and a marker name exactly when
\* its slot has a marker, so no tuple lacks both.
C22_OneTuplePerUsedSlot ==
    (last.op = "register_single_channels" /\ last.ok) =>
        /\ {last.registered_names[k].zi_channel_idx :
               k \in 1..Len(last.registered_names)} = UsedSlots(last.args)
        /\ \A j, k \in 1..Len(last.registered_names) :
               j < k => last.registered_names[j].zi_channel_idx
                            < last.registered_names[k].zi_channel_idx
        /\ \A k \in 1..Len(last.registered_names) :
               /\ (last.registered_names[k].wave_name # None) <=>
                      (last.args.channels[last.registered_names[k].zi_channel_idx] # None)
               /\ (last.registered_names[k].marker_name # None) <=>
                      (last.args.markers[last.registered_names[k].zi_channel_idx] # None)
               /\ (last.registered_names[k].wave_name # None
                       \/ last.registered_names[k].marker_name # None)

\* Two tuples were returned: slot 1 with a marker name and no wave name, slot 2
\* with a wave name and no marker name.
C22_Witness ==
    /\ last.op = "register_single_channels" /\ last.ok
    /\ Len(last.registered_names) = 2
    /\ last.registered_names[1].wave_name = None
    /\ last.registered_names[1].marker_name # None
    /\ last.registered_names[2].wave_name # None
    /\ last.registered_names[2].marker_name = None

----------------------------------------------------------------------------
(* The text the translator emits for a tree *)

\* The text stored by the register call just made.
StoredText == known_programs[Position(known_programs, last.name)].seqc_rep

\* The repetition counts above 1 of the nodes of a tree, leaves included, in the
\* order a depth-first walk meets the nodes.
RECURSIVE RepeatCounts(_)
RECURSIVE RepeatCountsFrom(_, _)
RepeatCounts(prog) ==
    (IF prog.repetition_count > 1 THEN <<prog.repetition_count>> ELSE <<>>)
        \o RepeatCountsFrom(prog.children, 1)

RepeatCountsFrom(children, i) ==
    IF i > Len(children) THEN <<>>
    ELSE RepeatCounts(children[i]) \o RepeatCountsFrom(children, i + 1)

\* The number of lines of a kind among the first k lines.
CountOf(lines, kind, k) == Cardinality({i \in 1..k : lines[i].kind = kind})

\* The counts on the repeat lines of a text, in text order.
OpenCounts(lines) ==
    LET opens == SelectSeq(lines, LAMBDA l : l.kind = "repeat")
    IN  [i \in 1..Len(opens) |-> opens[i].num]

\* C23: the text has a repeat(n) { line and a matching } line for every node whose
\* repetition count n is above 1 and for no other node, the root included: the
\* opening lines carry the counts of those nodes in walk order, no closing line
\* comes before its opening line, and there are as many of one as of the other.
C23_RepeatBlocks ==
    (last.op = "pm_register" /\ last.ok) =>
        /\ OpenCounts(StoredText) = RepeatCounts(last.program)
        /\ CountOf(StoredText, "}", Len(StoredText)) = Len(RepeatCounts(last.program))
        /\ \A k \in 1..Len(StoredText) :
               CountOf(StoredText, "}", k) <= CountOf(StoredText, "repeat", k)
        /\ \A k \in 1..Len(StoredText) :
               StoredText[k].kind = "repeat" =>
                   \E j \in (k + 1)..Len(StoredText) :
                       /\ StoredText[j].kind = "}"
                       /\ StoredText[j].ind = StoredText[k].ind
                       /\ \A m \in (k + 1)..(j - 1) : StoredText[m].ind > StoredText[k].ind

\* A tree of three levels was translated whose root and innermost node repeat and
\* whose middle node does not: two blocks, one inside the other.
C23_Witness ==
    /\ last.op = "pm_register" /\ last.ok
    /\ last.program.repetition_count = 2
    /\ RepeatCounts(last.program) = <<2, 3>>
    /\ OpenCounts(StoredText) = <<2, 3>>
    /\ StoredText[Len(StoredText)].kind = "}"

\* The slots of a configuration that have a channel or a marker, in ascending
\* order.
SlotsInOrder(c) ==
    SelectSeq([idx \in 1..Len(c.channels) |-> idx], LAMBDA idx : idx \in UsedSlots(c))

RECURSIVE NumLeaves(_)
RECURSIVE NumLeavesFrom(_, _)
NumLeaves(prog) == IF IsLeaf(prog) THEN 1 ELSE NumLeavesFrom(prog.children, 1)

NumLeavesFrom(children, i) ==
    IF i > Len(children) THEN 0
    ELSE NumLeaves(children[i]) + NumLeavesFrom(children, i + 1)

\* C24: the playWave line of a leaf has one operand per slot that has a channel or
\* a marker, in ascending slot order, each with the 1-based slot index and with
\* add(wave, marker) when the slot has both names and the one name otherwise; a
\* leaf has no playWave line when no slot has a channel or a marker.
C24_OperandPerUsedSlot ==
    (last.op = "pm_register" /\ last.ok) =>
        /\ CountOf(StoredText, "playWave", Len(StoredText))
               = IF UsedSlots(ambient) = {} THEN 0 ELSE NumLeaves(last.program)
        /\ CountOf(StoredText, "", Len(StoredText))
               = IF UsedSlots(ambient) = {} THEN NumLeaves(last.program) ELSE 0
        /\ \A i \in 1..Len(StoredText) :
               StoredText[i].kind = "playWave" =>
                   /\ Len(StoredText[i].ops) = Len(SlotsInOrder(ambient))
                   /\ \A k \in 1..Len(StoredText[i].ops) :
                          /\ StoredText[i].ops[k].channel_idx = SlotsInOrder(ambient)[k]
                          /\ (StoredText[i].ops[k].wf # None) <=>
                                 (ambient.channels[SlotsInOrder(ambient)[k]] # None)
                          /\ (StoredText[i].ops[k].mk # None) <=>
                                 (ambient.markers[SlotsInOrder(ambient)[k]] # None)
                          /\ (StoredText[i].ops[k].form = "add") <=>
                                 (/\ ambient.channels[SlotsInOrder(ambient)[k]] # None
                                  /\ ambient.markers[SlotsInOrder(ambient)[k]] # None)
                          /\ StoredText[i].ops[k].wf
                                 \in DictNames(wave_by_data) \cup {None}
                          /\ StoredText[i].ops[k].mk
                                 \in DictNames(marker_by_data) \cup {None}

\* A leaf was translated while slot 1 had a channel and a marker: its playWave
\* line has the one operand add(wave, marker) for slot 1.
C24_Witness ==
    /\ last.op = "pm_register" /\ last.ok
    /\ \E i \in 1..Len(StoredText) :
           /\ StoredText[i].kind = "playWave"
           /\ Len(StoredText[i].ops) = 1
           /\ StoredText[i].ops[1].form = "add"
           /\ StoredText[i].ops[1].channel_idx = 1
           /\ StoredText[i].ops[1].wf \in DictNames(wave_by_data)
           /\ StoredText[i].ops[1].mk \in DictNames(marker_by_data)

\* What a depth-first walk of a tree meets below depth repeating nodes, in order:
\* for a node that repeats its opening, its body one level deeper and its closing;
\* for a node that does not repeat its body at the same level; for a leaf its
\* waveform.
RECURSIVE Walk(_, _)
RECURSIVE WalkFrom(_, _, _)
Walk(prog, depth) ==
    IF prog.repetition_count > 1
    THEN <<[kind |-> "repeat", ind |-> 2 * depth, waveform |-> None]>>
             \o (IF IsLeaf(prog)
                 THEN <<[kind |-> "leaf", ind |-> 2 * (depth + 1), waveform |-> prog.waveform]>>
                 ELSE WalkFrom(prog.children, 1, depth + 1))
             \o <<[kind |-> "}", ind |-> 2 * depth, waveform |-> None]>>
    ELSE IF IsLeaf(prog)
    THEN <<[kind |-> "leaf", ind |-> 2 * depth, waveform |-> prog.waveform]>>
    ELSE WalkFrom(prog.children, 1, depth)

WalkFrom(children, i, depth) ==
    IF i > Len(children) THEN <<>>
    ELSE Walk(children[i], depth) \o WalkFrom(children, i + 1, depth)

\* The line of a leaf: its playWave line, or the blank line when nothing is played.
IsLeafLine(l) == l.kind \in {"playWave", ""}

\* The two waveforms differ on a channel or a marker the configuration uses.
ToldApart(c) ==
    \E idx \in 1..Len(c.channels) :
        \/ /\ c.channels[idx] # None
           /\ GetSampled("W1", c.channels[idx]) # GetSampled("W2", c.channels[idx])
        \/ /\ c.markers[idx] # None
           /\ GetSampled("W1", c.markers[idx]) # GetSampled("W2", c.markers[idx])

\* C25: the lines of the children of a node follow each other in child order,
\* depth first, and every line is indented by two blanks for each node around it
\* that repeats and by nothing for a node around it that does not.
C25_ChildOrderAndIndent ==
    (last.op = "pm_register" /\ last.ok) =>
        /\ Len(StoredText) = Len(Walk(last.program, 0))
        /\ \A i \in 1..Len(StoredText) :
               /\ StoredText[i].ind = Walk(last.program, 0)[i].ind
               /\ IF Walk(last.program, 0)[i].kind = "leaf"
                  THEN IsLeafLine(StoredText[i])
                  ELSE StoredText[i].kind = Walk(last.program, 0)[i].kind
        /\ \A i, j \in 1..Len(StoredText) :
               (IsLeafLine(StoredText[i]) /\ IsLeafLine(StoredText[j])) =>
                   /\ (Walk(last.program, 0)[i].waveform = Walk(last.program, 0)[j].waveform)
                          => StoredText[i].ops = StoredText[j].ops
                   /\ (ToldApart(ambient) /\ StoredText[i].ops = StoredText[j].ops)
                          => (Walk(last.program, 0)[i].waveform
                                  = Walk(last.program, 0)[j].waveform)

\* A tree was translated whose root repeats and whose first child, a node that
\* repeats too, holds two different leaves: the line of the first leaf is four
\* blanks deep and differs from the line of the leaf after the inner node, two
\* blanks deep.
C25_Witness ==
    /\ last.op = "pm_register" /\ last.ok
    /\ ToldApart(ambient)
    /\ Len(StoredText) = 7
    /\ StoredText[1].kind = "repeat" /\ StoredText[1].ind = 0
    /\ StoredText[2].kind = "repeat" /\ StoredText[2].ind = 2
    /\ StoredText[3].kind = "playWave" /\ StoredText[3].ind = 4
    /\ StoredText[4].kind = "playWave" /\ StoredText[4].ind = 4
    /\ StoredText[5].kind = "}" /\ StoredText[5].ind = 2
    /\ StoredText[6].kind = "playWave" /\ StoredText[6].ind = 2
    /\ StoredText[3].ops # StoredText[4].ops
    /\ StoredText[4].ops # StoredText[6].ops

\* The dictionary after holds every item of the dictionary before, in its place.
DictKept(before, after) ==
    /\ Len(before) <= Len(after)
    /\ SubSeq(after, 1, Len(before)) = before

\* Every file of the directory before is in the directory after with the same content.
FilesKept(f, g) ==
    \A p \in DOMAIN f : p \in DOMAIN g /\ g[p] = f[p]

\* The look-up e is recorded in its dictionary under its name and its file exists.
Committed(e, w, m, f) ==
    /\ DictGet(IF e.ns = "%f" THEN w ELSE m, e.hash) = e.name
    /\ FileExists(f, e.name)

\* A register call that raised leaves the programs as they were, every item and file
\* of before in place, and every item its look-ups stored recorded and on disk.
FailedCallKeeps ==
    (last'.op = "pm_register" /\ ~last'.ok) =>
        /\ known_programs' = known_programs
        /\ DictKept(wave_by_data, wave_by_data')
        /\ DictKept(marker_by_data, marker_by_data')
        /\ FilesKept(files, files')
        /\ \A i \in 1..Len(events') :
               Committed(events'[i], wave_by_data', marker_by_data', files')

----------------------------------------------------------------------------
(* The ambient configuration of the program manager *)

\* The items of kp stored under other names than the given one.
OtherItems(kp, name) == SelectSeq(kp, LAMBDA e : e.name # name)

\* C30: every register call leaves the seven ambient fields equal to its arguments,
\* whether it returns or raises; the translation already reads them (the call
\* returns exactly when the tree translates under its own arguments, and the text
\* stored is that translation); the items of the other names stay as they were.
C30_AmbientReplaced ==
    [][last'.op = "pm_register" =>
          /\ ambient'.channels = last'.args.channels
          /\ ambient'.markers = last'.args.markers
          /\ ambient'.voltage_transformation = last'.args.voltage_transformation
          /\ ambient'.sample_rate = last'.args.sample_rate
          /\ ambient'.output_range = last'.args.output_range
          /\ ambient'.output_offset = last'.args.output_offset
          /\ ambient'.overwrite = last'.args.overwrite
          /\ DOMAIN ambient' = DOMAIN ambient
          /\ OtherItems(known_programs', last'.name) = OtherItems(known_programs, last'.name)
          /\ \E t \in {ProgramToSeqc(last'.program, last'.args, Cache)} :
                 /\ last'.ok = t.ok
                 /\ t.ok => known_programs'[Position(known_programs', last'.name)].seqc_rep
                                = t.lines]_vars

\* A register call with two wave channels raised while another program, registered
\* under one wave channel, is stored: the ambient fields are those of the call that
\* raised, the sample rate is no longer the one of construction.
C30_Witness ==
    /\ last.op = "pm_register" /\ ~last.ok
    /\ Len(known_programs) = 1
    /\ known_programs[1].name # last.name
    /\ ambient.channels = <<"A", "B">>
    /\ ambient.sample_rate = QSampleRate

----------------------------------------------------------------------------
(* upload of the channel group *)

\* The three tuples of the upload have the length the group asks for.
LengthsFit(args) ==
    /\ Len(args[1]) = NumChannels
    /\ Len(args[2]) = NumChannels
    /\ Len(args[3]) = NumChannels

\* The configuration upload hands to register for the tuples and the force given.
UploadConfiguration(args, force) ==
    Configuration(args[1], args[2], args[3], ChannelRanges, <<0, 0>>, force)

\* C21: an upload under a registered name without force raises the value error and
\* leaves the programs, the cache, the files, the armed program and the text sent
\* as they were; with force the name is no reason to raise, and when the tuples fit
\* and the tree translates, the item of the name holds the program passed and its
\* new translation, whatever the polling does afterwards.
C21_KnownNameNeedsForce ==
    [][(last'.op = "upload" /\ last'.known) =>
          /\ ~last'.force =>
                 /\ ~last'.ok /\ last'.error = "HDAWGValueError" /\ ~last'.sent
                 /\ UNCHANGED <<known_programs, ambient, wave_by_data, marker_by_data,
                                files, group>>
          /\ last'.force => last'.stage # "name"
          /\ (last'.force /\ LengthsFit(last'.args)) =>
                 \E t \in {ProgramToSeqc(last'.program,
                                          UploadConfiguration(last'.args, TRUE), Cache)} :
                     t.ok =>
                         /\ last'.sent
                         /\ Names(known_programs') = Names(known_programs)
                         /\ known_programs'[Position(known_programs', last'.name)].program
                                = last'.program
                         /\ known_programs'[Position(known_programs', last'.name)].seqc_rep
                                = t.lines]_vars

\* While "p" was registered and armed, an upload under that name without force was
\* rejected for the name.
C21_Witness ==
    /\ last.op = "upload" /\ last.known /\ ~last.force
    /\ last.stage = "name"
    /\ LengthsFit(last.args)
    /\ group.current_program = "p"
    /\ known_programs[1].name = "p"
    /\ known_programs[1].program # last.program

\* C28: an upload whose channels, markers or transformations have another length
\* than the number of channels of the group raises the value error with the message
\* of the first check that fails; no program is registered, the configuration of
\* the program manager, the dictionaries and the files stay as they were, and no
\* text is sent to the device.
C28_LengthsChecked ==
    [][(last'.op = "upload" /\ ~LengthsFit(last'.args)) =>
          /\ ~last'.ok /\ last'.error = "HDAWGValueError" /\ ~last'.sent
          /\ last'.msg = IF Len(last'.args[1]) # NumChannels THEN "Channel ID not specified"
                         ELSE IF Len(last'.args[2]) # NumChannels
                         THEN "Markers not specified"
                         ELSE "Wrong number of voltage transformations"
          /\ UNCHANGED <<known_programs, ambient, wave_by_data, marker_by_data, files,
                         group>>]_vars

\* An upload with three transformations, forced and under a new name, was rejected
\* on a group of two channels whose cache was empty.
C28_Witness ==
    /\ last.op = "upload" /\ ~last.ok /\ last.force /\ ~last.known
    /\ Len(last.args[1]) = NumChannels
    /\ Len(last.args[2]) = NumChannels
    /\ Len(last.args[3]) = 3
    /\ wave_by_data = <<>>
    /\ DOMAIN files = {}

----------------------------------------------------------------------------
(* arm and run_current_program *)

\* C29 as stated: arm with a registered name makes it the armed program and writes
\* its index to the program selection register; arm(None) writes the idle value
\* and leaves no program armed; arm with any other name raises the value error and
\* changes neither; run_current_program raises the runtime error when no program
\* is armed.
C29_ArmSelectsProgram ==
    [][/\ last'.op = "arm" =>
              IF last'.name = None
              THEN /\ last'.ok
                   /\ group'.prog_sel = PROG_IDLE
                   /\ group'.current_program = None
              ELSE IF last'.name \in Names(known_programs)
              THEN /\ last'.ok
                   /\ group'.current_program = last'.name
                   /\ group'.prog_sel = NameToIndex(known_programs, last'.name)
              ELSE /\ ~last'.ok /\ last'.error = "HDAWGValueError"
                   /\ group' = group
       /\ (last'.op = "run_current_program" /\ group.current_program = None) =>
              /\ ~last'.ok /\ last'.error = "HDAWGRuntimeError"
              /\ group' = group]_vars

----------------------------------------------------------------------------
(* The polling after an upload *)

\* C27 as stated: every polling call ends, by returning or by raising; while the
\* compilation or the upload is still going on after the timeout, it raises the
\* timeout error.
C27_PollingEnds ==
    (poll.pc \in {"compiling", "uploading"}) ~> (poll.pc \in {"returned", "raised"})

----------------------------------------------------------------------------
(* The indices of the registered programs *)

\* C31 as stated: no two items of the registry hold the same index, so that the
\* case block never has two arms with the same label.
C31_IndicesDistinct ==
    \A i, j \in 1..Len(known_programs) :
        i # j => known_programs[i].index # known_programs[j].index

----------------------------------------------------------------------------
(* The dictionaries of the wave manager and the files of its directory *)

\* Every name recorded has its file, and every file the glob of the prefix matches
\* is the file of a name recorded.
MapsMatchStorage(w, m, f) ==
    /\ AllOnDisk(w, f)
    /\ AllOnDisk(m, f)
    /\ \A p \in DOMAIN f :
           GlobMatch(p, AwgPrefix) =>
               \E n \in DictNames(w) \cup DictNames(m) : FullFilePath(n) = p

\* C32 as stated: a call of register, register_single_channels, remove or clear
\* that meets the dictionaries and the files matching and raises no error of the
\* storage leaves them matching; they match after construction.
C32_MapsMatchStorage ==
    [][(/\ MapsMatchStorage(wave_by_data, marker_by_data, files)
        /\ last'.op \in {"register", "register_single_channels", "wm_remove", "wm_clear"}
        /\ last'.op = "wm_remove" => last'.ok
        /\ last'.op = "register" => last'.error # "HDAWGIOError")
           => MapsMatchStorage(wave_by_data', marker_by_data', files')]_vars

----------------------------------------------------------------------------
(* The armed program of the channel group *)

\* C33 as stated: the armed program is None or the name of a registered program.
C33_ArmedIsRegistered ==
    group.current_program = None \/ group.current_program \in Names(known_programs)

\* C34 as stated: while a registered program is armed, the program selection
\* register holds the index that program has in the registry.
C34_RegisterSelectsArmed ==
    (group.current_program # None /\ group.current_program \in Names(known_programs)) =>
        group.prog_sel = NameToIndex(known_programs, group.current_program)

----------------------------------------------------------------------------
(* The other items of the registry *)

\* C35: a register call that returns leaves every item of another name with its
\* program, index and text, and these items in the order they had; remove of a
\* registered name leaves exactly the other items, unchanged and in their order.
C35_OtherItemsKept ==
    [][/\ (last'.op = "pm_register" /\ last'.ok) =>
              /\ OtherItems(known_programs', last'.name)
                     = OtherItems(known_programs, last'.name)
              /\ last'.name \in Names(known_programs')
       /\ (last'.op = "pm_remove" /\ last'.ok) =>
              known_programs' = OtherItems(known_programs, last'.name)]_vars

\* remove took the first of two programs: the one that remains holds an index
\* above 1.
C35_Witness ==
    /\ last.op = "pm_remove" /\ last.ok
    /\ Len(known_programs) = 1
    /\ known_programs[1].index > 1
    /\ Len(inserted) = 1

====
